---- MODULE Spec2Model ----
(***************************************************************************)
(* Paper lifecycle and review pipeline of the aiXiv backend                *)
(* (backend/orchestrator.py, backend/arena.py, backend/app.py,             *)
(* backend/rail/decision_record.py, backend/database.py).                  *)
(*                                                                         *)
(* The state is the SQLite tables the orchestrator reads and writes, the   *)
(* per-paper decision logs, and the calls in progress with their locals.   *)
(* A call that ends is kept as `last` (what its caller saw) and, in        *)
(* short, in the history of its paper, so that a property of an operation  *)
(* can be stated over the call and the tables.                             *)
(***************************************************************************)
EXTENDS Integers, Sequences, FiniteSets, TLC

\* ------------------------------------------------------------ bounds
\* calls made one after the other, calls made when they overlap
MaxCalls == 3
MaxConcCalls == 2

\* ------------------------------------------------------------ constants
FirstPaperNum == 6

\* orchestrator.py: STATES
STATES ==
  <<"submitted", "under_review", "revision", "re_review",
    "accepted", "published_arena", "rejected">>

\* orchestrator.py: VALID_TRANSITIONS (a dict from status to list)
VALID_TRANSITIONS ==
  ("submitted" :> <<"under_review">>) @@
  ("under_review" :> <<"revision", "accepted", "rejected">>) @@
  ("revision" :> <<"re_review">>) @@
  ("re_review" :> <<"revision", "accepted", "rejected">>) @@
  ("accepted" :> <<"published_arena">>) @@
  ("published_arena" :> <<>>) @@
  ("rejected" :> <<"revision">>)

\* a key the adapter's result dict does not hold
MISSING == "<missing>"
\* no value (a local not yet assigned, an argument the operation does not take)
NONE == "-"

\* dict.get(key, default)
Get(d, key, default) == IF d[key] = MISSING THEN default ELSE d[key]

\* x in list
InList(x, list) == \E i \in DOMAIN list : list[i] = x

\* a guard that looks the list up under one fixed status, whatever the
\* paper's status is
AllowedFromUnderReview(current) == VALID_TRANSITIONS["under_review"]

\* VALID_TRANSITIONS.get(current, [])
AllowedFrom(current) ==
  IF current \in DOMAIN VALID_TRANSITIONS THEN VALID_TRANSITIONS[current] ELSE <<>>

\* the threads or processes that serve calls at the same time
Workers == {"w1", "w2"}

\* ------------------------------------------------------------ inputs
\* the papers that get submitted: the first of the month
Submitted == {FirstPaperNum}
\* paper ids a caller may pass: those, and one that is never created
PaperIds == Submitted \cup {FirstPaperNum + 1}

\* statuses a caller may pass to transition_paper: the declared ones and
\* one that is not declared
StatusArgs ==
  {STATES[i] : i \in DOMAIN STATES} \cup {"archived"}

\* what the peer review adapter may return (overall_score)
PeerScores == {6}
\* the soundness and novelty scores it may return
PeerDims == {4}
\* what the red team adapter may return (overall_risk)
RedteamRisks == {"low"}
\* what the meta-review adapter may return
MetaResults ==
  {[final_recommendation |-> "accept", maturity_level |-> "L3"],
   [final_recommendation |-> "reject", maturity_level |-> "L1"],
   [final_recommendation |-> "minor_revision", maturity_level |-> "L3"],
   [final_recommendation |-> "major_revision", maturity_level |-> MISSING],
   [final_recommendation |-> "unclear", maturity_level |-> "L1"],
   [final_recommendation |-> MISSING, maturity_level |-> "L3"]}
\* the scenarios of the evaluation adapter, in the order of its prompt
EvalScenarios == <<"ideal", "noisy", "mismatch", "adversarial">>
\* eval_engine.py: evaluate_paper, what it returns when the response of the
\* model does not parse
FALLBACK_EVAL == [scenarios |-> <<>>, rail_compliant |-> FALSE]
\* eval_engine.py: evaluate_paper, what it may return: the parsed response
\* (the scores and the rail_compliant the model wrote) or the fallback
EvalDicts ==
  {[scenarios |-> <<7, 7, 6, 5>>, rail_compliant |-> TRUE],
   [scenarios |-> <<8, 6, 4, 2>>, rail_compliant |-> FALSE],
   FALLBACK_EVAL}

VARIABLES
  papers,          \* table papers: paper_id -> row
  reviews,         \* table reviews, in insertion order
  redteam_reports, \* table redteam_reports, in insertion order
  meta_reviews,    \* table meta_reviews, in insertion order
  eval_results,    \* table eval_results, in insertion order
  revisions,       \* table revisions, in insertion order
  arena_papers,    \* table arena_papers, in insertion order
  decision_logs,   \* data/decision_logs/<paper>.jsonl: paper_id -> lines
  active,          \* the calls in progress: call id -> its locals
  ncalls,          \* the number of calls begun so far
  last,            \* the call that ended most recently, as its caller saw it
  hist,            \* paper_id -> the ended calls that wrote to that paper
  clock            \* datetime.utcnow(): the number of readings so far

vars ==
  <<papers, reviews, redteam_reports, meta_reviews, eval_results, revisions,
    arena_papers, decision_logs, active, ncalls, last, hist, clock>>

\* the persistent state: the database and the decision logs
tables ==
  <<papers, reviews, redteam_reports, meta_reviews, eval_results, revisions,
    arena_papers, decision_logs>>

\* ------------------------------------------------------------ helpers
Exists(pid) == pid \in DOMAIN papers

\* rows of a table for one paper, in insertion order
RowsOf(table, pid) == SelectSeq(table, LAMBDA r : r.paper_id = pid)

\* the rows of a table one call wrote
RowsBy(table, c) == SelectSeq(table, LAMBDA r : r.by = c)

\* the lines of a paper's log file (none when the file does not exist); a
\* line is the pieces of text written to it and whether it ends in "\n"
FileOf(pid) == IF pid \in DOMAIN decision_logs THEN decision_logs[pid] ELSE <<>>

\* open(log_file, "a") and f.write(text): the text goes after the last byte
\* of the file, on the last line when that line has no "\n" yet
AppendText(lines, piece, newline) ==
  IF lines # <<>> /\ ~lines[Len(lines)].newline
    THEN [lines EXCEPT ![Len(lines)] =
            [pieces |-> Append(@.pieces, piece), newline |-> newline]]
    ELSE Append(lines, [pieces |-> <<piece>>, newline |-> newline])

\* json.loads(line): the line is one whole JSON object, or JSONDecodeError
\* and the loop goes on
ParseLine(line) ==
  IF Len(line.pieces) = 1 /\ line.pieces[1].complete
    THEN <<line.pieces[1]>>
    ELSE <<>>

\* a reader that stops at the first line it cannot parse
RECURSIVE ReadLinesUntilMalformed(_)
ReadLinesUntilMalformed(lines) ==
  IF lines = <<>> \/ ParseLine(Head(lines)) = <<>>
    THEN <<>>
    ELSE ParseLine(Head(lines)) \o ReadLinesUntilMalformed(Tail(lines))

\* decision_record.py: get_decisions, "for line in f"
RECURSIVE ReadLines(_)
ReadLines(lines) ==
  IF lines = <<>>
    THEN <<>>
    ELSE ParseLine(Head(lines)) \o ReadLines(Tail(lines))

\* decision_record.py: get_decisions
get_decisions(logs, pid) ==
  IF pid \in DOMAIN logs THEN ReadLines(logs[pid]) ELSE <<>>

\* the decision records of a paper, as get_decisions returns them now
LogOf(pid) == get_decisions(decision_logs, pid)

\* the system prompts of the stage adapters and the prompt_text that the
\* callers of record_decision pass, with their sha256 digests cut to 16
PROMPT_DIGESTS ==
  ("" :> "e3b0c44298fc1c14") @@
  ("REVIEWER_SYSTEM" :> "838eb573f134b4ca") @@
  ("REDTEAM_SYSTEM" :> "59185d5e42c199a2") @@
  ("META_REVIEWER_SYSTEM" :> "5727bcffd6976f6e")

\* hashlib.sha256(prompt_text.encode()).hexdigest()[:16]
prompt_hash(prompt_text) == PROMPT_DIGESTS[prompt_text]

\* decision_record.py: record_decision, the record dict (by: the call that
\* writes it; complete: the whole of json.dumps(record) is in the file)
DecisionRecord(pid, action_type, model_used, prompt_text, c) ==
  [paper_id |-> pid, action_type |-> action_type, model_used |-> model_used,
   prompt_hash |-> prompt_hash(prompt_text), by |-> c, complete |-> TRUE]

\* database.py: generate_paper_id (the row with the largest autoincrement id)
generate_paper_id ==
  IF DOMAIN papers = {}
    THEN FirstPaperNum
    ELSE LET last_row == CHOOSE p \in DOMAIN papers :
                           \A q \in DOMAIN papers : papers[q].id <= papers[p].id
         IN  last_row + 1

\* decision_record.py: record_decision, the log with the line appended
record_decision(pid, action_type, model_used, prompt_text, c) ==
  (pid :> AppendText(FileOf(pid),
                     DecisionRecord(pid, action_type, model_used,
                                    prompt_text, c),
                     TRUE))
  @@ decision_logs

\* decision_record.py: record_decision, f.write stops part-way (the disk is
\* full, the process is killed): a part of the line is in the file, no "\n"
torn_write(pid, action_type, model_used, prompt_text, c) ==
  (pid :> AppendText(FileOf(pid),
                     [DecisionRecord(pid, action_type, model_used,
                                     prompt_text, c) EXCEPT !.complete = FALSE],
                     FALSE))
  @@ decision_logs

\* the locals of a call that has just begun
NewCall(c, op, pid, new_status) ==
  [id |-> c, op |-> op, paper_id |-> pid, new_status |-> new_status,
   pc |-> "begin", error |-> NONE, current |-> NONE, now |-> 0,
   entered |-> FALSE, wrote |-> FALSE, invoked |-> <<>>, raised |-> NONE,
   peer |-> NONE, redteam |-> NONE,
   meta |-> [final_recommendation |-> NONE, maturity_level |-> NONE],
   eval_result |-> [scenarios |-> <<>>, rail_compliant |-> NONE],
   emitted |-> <<>>, child |-> 0, thread |-> FALSE, yielded |-> <<>>,
   returned |-> NONE]

NoCall == NewCall(0, NONE, 0, NONE)

\* what hist keeps of a call that has ended
Summary(call) ==
  [id |-> call.id, op |-> call.op, error |-> call.error,
   current |-> call.current, entered |-> call.entered,
   invoked |-> call.invoked]

Idle == DOMAIN active = {}

\* a call ends: it leaves `active`, its caller sees `call`
Ends(call) ==
  /\ active' = [c \in DOMAIN active \ {call.id} |-> active[c]]
  /\ last' = call
  /\ hist' = IF call.wrote /\ call.paper_id \in DOMAIN hist
               THEN [hist EXCEPT ![call.paper_id] = Append(@, Summary(call))]
               ELSE hist

Raised(call, error) == [call EXCEPT !.pc = "failed", !.error = error]
Returned(call, value) == [call EXCEPT !.pc = "done", !.returned = value]

\* a call goes on to its next statement
Continues(call) ==
  /\ active' = (call.id :> call) @@ active
  /\ UNCHANGED <<last, hist>>

\* the missing row goes unnoticed and the call returns
NotFoundIgnored(call) == Ends(Returned(call, NONE))

\* raise ValueError(f"Paper {paper_id} not found"): the call ends there
NotFound(call) == Ends(Raised(call, "NotFound"))

\* the exception is caught and the run goes on to its final update
AdapterFailsThenFinal(call) == Continues([call EXCEPT !.pc = "final"])

\* a stage adapter raises and run_full_review catches nothing: the call ends
AdapterFails(call) == Ends(Raised(call, "AdapterFailure"))

\* the failed audit write is passed over and the run goes on to its final
\* update
AuditFailsThenFinal(call) == Continues([call EXCEPT !.pc = "final"])

\* record_decision raises (the log directory or file cannot be written) and
\* the caller catches nothing: the call ends
AuditFails(call) == Ends(Raised(call, "AuditFailure"))

\* the row added without regard to the rows of the same paper
UpsertAppends(table, row) == Append(table, row)

\* INSERT OR REPLACE INTO a table whose paper_id is UNIQUE: the row that
\* holds the same paper_id is deleted and the new row is inserted
Upsert(table, row) ==
  Append(SelectSeq(table, LAMBDA r : r.paper_id # row.paper_id), row)

\* INSERT OR REPLACE keyed by the paper: the paper's earlier rows go
InsertOrReplace(table, row) ==
  Append(SelectSeq(table, LAMBDA r : r.paper_id # row.paper_id), row)

\* INSERT INTO table: a new row, after the rows there are
Insert(table, row) == Append(table, row)

\* a call can begin when the calls are made one after the other
SeqBegin == DOMAIN active = {} /\ ncalls < MaxCalls

\* a call can begin when calls overlap: a worker is free
ConcBegin ==
  /\ Cardinality(DOMAIN active) < Cardinality(Workers)
  /\ ncalls < MaxConcCalls

Init ==
  /\ papers = <<>>
  /\ reviews = <<>>
  /\ redteam_reports = <<>>
  /\ meta_reviews = <<>>
  /\ eval_results = <<>>
  /\ revisions = <<>>
  /\ arena_papers = <<>>
  /\ decision_logs = <<>>
  /\ active = <<>>
  /\ ncalls = 0
  /\ last = NoCall
  /\ hist = <<>>
  /\ clock = 0

\* ------------------------------------------------------------ submit_paper
\* app.py: submit_paper
SubmitPaper ==
  /\ LET paper_id == generate_paper_id
         now == clock + 1
     IN  /\ paper_id \in Submitted
         /\ paper_id \notin DOMAIN papers
         /\ papers' = papers @@
              (paper_id :> [id |-> Cardinality(DOMAIN papers) + 1,
                            status |-> "submitted", maturity_level |-> "L0",
                            version |-> 1, created_at |-> now,
                            updated_at |-> now])
         /\ hist' = hist @@ (paper_id :> <<>>)
         /\ clock' = now
  /\ UNCHANGED <<reviews, redteam_reports, meta_reviews, eval_results,
                 revisions, arena_papers, decision_logs, active, ncalls, last>>

\* ------------------------------------------------------------ transition_paper
\* orchestrator.py: transition_paper, the SELECT and the guard
TransitionSelect(pid, new_status) ==
  /\ ncalls' = ncalls + 1
  /\ LET call == NewCall(ncalls + 1, "transition_paper", pid, new_status)
     IN  IF ~Exists(pid)
           THEN NotFound(call)
           ELSE LET current == papers[pid].status
                    read == [call EXCEPT !.current = current]
                IN  IF ~InList(new_status, AllowedFrom(current))
                      THEN Ends(Raised(read, "InvalidTransition"))
                      ELSE Continues([read EXCEPT !.pc = "update"])
  /\ UNCHANGED <<tables, clock>>

\* orchestrator.py: transition_paper, the UPDATE and the commit
TransitionUpdate(c) ==
  /\ active[c].op = "transition_paper"
  /\ active[c].pc = "update"
  /\ LET call == active[c]
         now == clock + 1
     IN  /\ papers' = [papers EXCEPT ![call.paper_id].status = call.new_status,
                                     ![call.paper_id].updated_at = now]
         /\ clock' = now
         /\ Ends(Returned([call EXCEPT !.now = now, !.wrote = TRUE],
                          call.new_status))
  /\ UNCHANGED <<reviews, redteam_reports, meta_reviews, eval_results,
                 revisions, arena_papers, decision_logs, ncalls>>

\* ------------------------------------------------------------ run_full_review
\* the recommendation itself written as the status
NewStatusForRaw(rec) == rec

\* a mapping that forgets the "reject" branch
NewStatusForNoReject(rec) == IF rec = "accept" THEN "accepted" ELSE "revision"

\* the status the final step derives from the recommendation
\* orchestrator.py: run_full_review, "new_status = ..."
NewStatusFor(rec) ==
  IF rec = "accept" THEN "accepted"
  ELSE IF rec = "reject" THEN "rejected"
  ELSE "revision"

\* the entry update made whatever the status is
EntryAppliesAlways(status) == TRUE

\* orchestrator.py: run_full_review, 'if paper["status"] == "submitted"'
EntryApplies(status) == status = "submitted"

\* orchestrator.py: run_full_review, the SELECT and the reading of `now`
ReviewSelect(pid) ==
  /\ ncalls' = ncalls + 1
  /\ LET call == NewCall(ncalls + 1, "run_full_review", pid, NONE)
     IN  IF ~Exists(pid)
           THEN /\ NotFound(call)
                /\ UNCHANGED clock
           ELSE /\ Continues([call EXCEPT !.pc = "entry",
                                          !.current = papers[pid].status,
                                          !.now = clock + 1])
                /\ clock' = clock + 1
  /\ UNCHANGED tables

\* orchestrator.py: run_full_review, "Transition to under_review"
ReviewEntry(c) ==
  /\ active[c].op = "run_full_review"
  /\ active[c].pc = "entry"
  /\ LET call == active[c]
     IN  IF EntryApplies(call.current)
           THEN /\ papers' = [papers EXCEPT
                                ![call.paper_id].status = "under_review",
                                ![call.paper_id].updated_at = call.now]
                /\ Continues([call EXCEPT !.pc = "peer", !.entered = TRUE,
                                          !.wrote = TRUE])
           ELSE /\ papers' = papers
                /\ Continues([call EXCEPT !.pc = "peer"])
  /\ UNCHANGED <<reviews, redteam_reports, meta_reviews, eval_results,
                 revisions, arena_papers, decision_logs, ncalls, clock>>

\* orchestrator.py: run_full_review, step 1: review_paper and the INSERT
ReviewPeer(c) ==
  /\ active[c].op = "run_full_review"
  /\ active[c].pc = "peer"
  /\ LET call == [active[c] EXCEPT !.invoked = Append(@, "review_paper")]
     IN  \/ /\ AdapterFails([call EXCEPT !.raised = "review_paper"])
            /\ reviews' = reviews
         \/ \E score \in PeerScores, snd \in PeerDims, nov \in PeerDims :
              /\ reviews' = Insert(reviews,
                   [paper_id |-> call.paper_id, by |-> c,
                    review_layer |-> "full", overall_score |-> score,
                    soundness |-> snd, novelty |-> nov,
                    created_at |-> call.now])
              /\ Continues([call EXCEPT !.pc = "peer_record",
                                        !.wrote = TRUE, !.peer = score])
  /\ UNCHANGED <<papers, redteam_reports, meta_reviews, eval_results,
                 revisions, arena_papers, decision_logs, ncalls, clock>>

\* a step of run_full_review that appends a stage's decision record
ReviewRecord(c, pc, action_type, next_pc) ==
  /\ active[c].op = "run_full_review"
  /\ active[c].pc = pc
  /\ LET call == active[c]
     IN  \/ /\ AuditFails([call EXCEPT !.raised = "record_decision"])
            /\ decision_logs' = decision_logs
         \/ /\ decision_logs' =
                 record_decision(call.paper_id, action_type, "claude-opus", "", c)
            /\ Continues([call EXCEPT !.pc = next_pc])
  /\ UNCHANGED <<papers, reviews, redteam_reports, meta_reviews, eval_results,
                 revisions, arena_papers, ncalls, clock>>

\* the run goes from the peer review straight to the meta-review
ReviewPeerRecordThenMeta(c) ==
  ReviewRecord(c, "peer_record", "peer_review", "meta")

\* orchestrator.py: run_full_review, record_decision(.., "peer_review", ..)
ReviewPeerRecord(c) == ReviewRecord(c, "peer_record", "peer_review", "redteam")

\* orchestrator.py: run_full_review, step 2: redteam_paper and the INSERT
ReviewRedteam(c) ==
  /\ active[c].op = "run_full_review"
  /\ active[c].pc = "redteam"
  /\ LET call == [active[c] EXCEPT !.invoked = Append(@, "redteam_paper")]
     IN  \/ /\ AdapterFails([call EXCEPT !.raised = "redteam_paper"])
            /\ redteam_reports' = redteam_reports
         \/ \E risk \in RedteamRisks :
              /\ redteam_reports' = Insert(redteam_reports,
                   [paper_id |-> call.paper_id, by |-> c,
                    overall_risk |-> Get([overall_risk |-> risk],
                                         "overall_risk", "medium"),
                    created_at |-> call.now])
              /\ Continues([call EXCEPT !.pc = "redteam_record",
                                        !.redteam = risk])
  /\ UNCHANGED <<papers, reviews, meta_reviews, eval_results,
                 revisions, arena_papers, decision_logs, ncalls, clock>>

\* the red team record written under the peer review's action type
ReviewRedteamRecordAsPeer(c) ==
  ReviewRecord(c, "redteam_record", "peer_review", "meta")

\* orchestrator.py: run_full_review, record_decision(.., "redteam", ..)
ReviewRedteamRecord(c) == ReviewRecord(c, "redteam_record", "redteam", "meta")

\* orchestrator.py: run_full_review, step 3: meta_review and the INSERT
ReviewMeta(c) ==
  /\ active[c].op = "run_full_review"
  /\ active[c].pc = "meta"
  /\ LET call == [active[c] EXCEPT !.invoked = Append(@, "meta_review")]
     IN  \/ /\ AdapterFails([call EXCEPT !.raised = "meta_review"])
            /\ meta_reviews' = meta_reviews
         \/ \E meta_result \in MetaResults :
              LET rec == meta_result.final_recommendation
              IN  /\ meta_reviews' = Insert(meta_reviews,
                       [paper_id |-> call.paper_id, by |-> c,
                        final_recommendation |->
                          Get(meta_result, "final_recommendation", ""),
                        maturity_level |->
                          Get(meta_result, "maturity_level", "L0"),
                        created_at |-> call.now])
                  /\ Continues([call EXCEPT !.pc = "meta_record",
                                            !.meta = meta_result])
  /\ UNCHANGED <<papers, reviews, redteam_reports, eval_results,
                 revisions, arena_papers, decision_logs, ncalls, clock>>

\* orchestrator.py: run_full_review, record_decision(.., "meta_review", ..)
ReviewMetaRecord(c) == ReviewRecord(c, "meta_record", "meta_review", "final")

\* the final UPDATE derived from the Meta-Review row of the paper that was
\* inserted last, whichever run inserted it
ReviewFinalFromLatestRow(c) ==
  /\ active[c].op = "run_full_review"
  /\ active[c].pc = "final"
  /\ LET call == active[c]
         rows == RowsOf(meta_reviews, call.paper_id)
         latest == rows[Len(rows)]
         new_status == NewStatusFor(latest.final_recommendation)
     IN  /\ papers' = [papers EXCEPT
                         ![call.paper_id].maturity_level = latest.maturity_level,
                         ![call.paper_id].status = new_status,
                         ![call.paper_id].updated_at = call.now]
         /\ Ends(Returned(call, new_status))
  /\ UNCHANGED <<reviews, redteam_reports, meta_reviews, eval_results,
                 revisions, arena_papers, decision_logs, ncalls, clock>>

\* orchestrator.py: run_full_review, step 4: the final UPDATE and the return
ReviewFinal(c) ==
  /\ active[c].op = "run_full_review"
  /\ active[c].pc = "final"
  /\ LET call == active[c]
         maturity == Get(call.meta, "maturity_level", "L0")
         rec == Get(call.meta, "final_recommendation", "minor_revision")
         new_status == NewStatusFor(rec)
     IN  /\ papers' = [papers EXCEPT
                         ![call.paper_id].maturity_level = maturity,
                         ![call.paper_id].status = new_status,
                         ![call.paper_id].updated_at = call.now]
         /\ Ends(Returned(call, new_status))
  /\ UNCHANGED <<reviews, redteam_reports, meta_reviews, eval_results,
                 revisions, arena_papers, decision_logs, ncalls, clock>>

\* ------------------------------------------------------------ run_rail_evaluation
\* orchestrator.py: run_rail_evaluation, the SELECT and the reading of `now`
RailSelect(pid) ==
  /\ ncalls' = ncalls + 1
  /\ LET call == NewCall(ncalls + 1, "run_rail_evaluation", pid, NONE)
     IN  IF ~Exists(pid)
           THEN /\ NotFound(call)
                /\ UNCHANGED clock
           ELSE /\ Continues([call EXCEPT !.pc = "evaluate",
                                          !.current = papers[pid].status,
                                          !.now = clock + 1])
                /\ clock' = clock + 1
  /\ UNCHANGED tables

\* the rows one evaluation inserts, one per scenario the adapter returned
EvalRows(call, scores) ==
  [i \in DOMAIN scores |->
     [paper_id |-> call.paper_id, by |-> call.id,
      scenario |-> EvalScenarios[i], score |-> scores[i],
      created_at |-> call.now]]

\* orchestrator.py: run_rail_evaluation, evaluate_paper and the INSERTs
RailEvaluate(c) ==
  /\ active[c].op = "run_rail_evaluation"
  /\ active[c].pc = "evaluate"
  /\ LET call == [active[c] EXCEPT !.invoked = Append(@, "evaluate_paper")]
     IN  \/ /\ AdapterFails([call EXCEPT !.raised = "evaluate_paper"])
            /\ eval_results' = eval_results
         \/ \E eval_result \in EvalDicts :
              /\ eval_results' =
                   eval_results \o EvalRows(call, eval_result.scenarios)
              /\ Continues([call EXCEPT !.pc = "record",
                                        !.eval_result = eval_result,
                                        !.wrote = eval_result.scenarios # <<>>])
  /\ UNCHANGED <<papers, reviews, redteam_reports, meta_reviews,
                 revisions, arena_papers, decision_logs, ncalls, clock>>

\* orchestrator.py: run_rail_evaluation, record_decision and the return
RailRecord(c) ==
  /\ active[c].op = "run_rail_evaluation"
  /\ active[c].pc = "record"
  /\ LET call == active[c]
     IN  \/ /\ AuditFails([call EXCEPT !.raised = "record_decision"])
            /\ decision_logs' = decision_logs
         \/ /\ decision_logs' =
                 record_decision(call.paper_id, "rail_evaluation", "default", "", c)
            /\ Ends(Returned([call EXCEPT !.wrote = TRUE], "eval_result"))
  /\ UNCHANGED <<papers, reviews, redteam_reports, meta_reviews, eval_results,
                 revisions, arena_papers, ncalls, clock>>

\* ------------------------------------------------------------ promote_to_arena
\* a table whose last step, L4 to L5, is shorter than the others
MATURITY_BONUSShortLastStep ==
  ("L0" :> 0) @@ ("L1" :> 50) @@ ("L2" :> 100) @@
  ("L3" :> 150) @@ ("L4" :> 225) @@ ("L5" :> 250)

\* arena.py: MATURITY_BONUS, in hundredths
MATURITY_BONUS ==
  ("L0" :> 0) @@ ("L1" :> 50) @@ ("L2" :> 100) @@
  ("L3" :> 150) @@ ("L4" :> 200) @@ ("L5" :> 250)

RECURSIVE SumOverall(_)
SumOverall(rows) ==
  IF rows = <<>> THEN 0 ELSE Head(rows).overall_score + SumOverall(Tail(rows))

\* the mean alone, without the maturity bonus
compute_composite_scoreMeanOnly(rows, maturity_level) ==
  IF rows = <<>> THEN 0
  ELSE (200 * SumOverall(rows) + Len(rows)) \div (2 * Len(rows))

\* arena.py: compute_composite_score, in hundredths (round(x, 2))
compute_composite_score(rows, maturity_level) ==
  IF rows = <<>>
    THEN 0
    ELSE LET n == Len(rows)
             avg100 == (200 * SumOverall(rows) + n) \div (2 * n)
             bonus == IF maturity_level \in DOMAIN MATURITY_BONUS
                        THEN MATURITY_BONUS[maturity_level] ELSE 0
         IN  avg100 + bonus

\* arena.py: BADGE_RULES, in the order of the dict
BADGE_NAMES ==
  <<"L3 Certified", "L4 Certified", "L5 Certified", "Red-Team Cleared",
    "Rail Compliant", "High Soundness", "High Novelty">>

\* the rules with "all(e["score"] >= 5 for e in evals)" alone for the rail badge
BadgeRuleVacuous(name, paper, revs, redteam, evals) ==
  CASE name = "L3 Certified" -> paper.maturity_level \in {"L3", "L4", "L5"}
    [] name = "L4 Certified" -> paper.maturity_level \in {"L4", "L5"}
    [] name = "L5 Certified" -> paper.maturity_level = "L5"
    [] name = "Red-Team Cleared" ->
         redteam # <<>> /\ redteam[1].overall_risk = "low"
    [] name = "Rail Compliant" ->
         \A i \in DOMAIN evals : evals[i].score >= 5
    [] name = "High Soundness" ->
         revs # <<>> /\ \E i \in DOMAIN revs : revs[i].soundness >= 4
    [] name = "High Novelty" ->
         revs # <<>> /\ \E i \in DOMAIN revs : revs[i].novelty >= 4

\* arena.py: BADGE_RULES; redteam is a sequence of at most one row
BadgeRule(name, paper, revs, redteam, evals) ==
  CASE name = "L3 Certified" -> paper.maturity_level \in {"L3", "L4", "L5"}
    [] name = "L4 Certified" -> paper.maturity_level \in {"L4", "L5"}
    [] name = "L5 Certified" -> paper.maturity_level = "L5"
    [] name = "Red-Team Cleared" ->
         redteam # <<>> /\ redteam[1].overall_risk = "low"
    [] name = "Rail Compliant" ->
         evals # <<>> /\ \A i \in DOMAIN evals : evals[i].score >= 5
    [] name = "High Soundness" ->
         revs # <<>> /\ \E i \in DOMAIN revs : revs[i].soundness >= 4
    [] name = "High Novelty" ->
         revs # <<>> /\ \E i \in DOMAIN revs : revs[i].novelty >= 4

\* arena.py: compute_badges
compute_badges(paper, revs, redteam, evals) ==
  SelectSeq(BADGE_NAMES, LAMBDA name : BadgeRule(name, paper, revs, redteam, evals))

\* arena.py: promote_paper, "ORDER BY created_at DESC LIMIT 1"
LatestRow(rows) ==
  IF rows = <<>>
    THEN <<>>
    ELSE LET i == CHOOSE i \in DOMAIN rows :
                    \A j \in DOMAIN rows : rows[j].created_at <= rows[i].created_at
         IN  <<rows[i]>>

\* the check of the reviews left out
NotReviewedNever(revs) == FALSE

\* arena.py: promote_paper, "if not reviews"
NotReviewed(revs) == revs = <<>>

\* orchestrator.py: promote_to_arena; arena.py: promote_paper
Promote(pid) ==
  /\ ncalls' = ncalls + 1
  /\ LET call == NewCall(ncalls + 1, "promote_to_arena", pid, NONE)
     IN  IF ~Exists(pid)
           THEN /\ NotFound(call)
                /\ UNCHANGED <<papers, arena_papers, clock>>
           ELSE
             LET paper == papers[pid]
                 read == [call EXCEPT !.current = paper.status]
                 revs == RowsOf(reviews, pid)
             IN  IF NotReviewed(revs)
                   THEN /\ Ends(Raised(read, "PreconditionFailed"))
                        /\ UNCHANGED <<papers, arena_papers, clock>>
                   ELSE
                     LET redteam == LatestRow(RowsOf(redteam_reports, pid))
                         evals == RowsOf(eval_results, pid)
                         maturity == paper.maturity_level
                         badges == compute_badges(paper, revs, redteam, evals)
                         now == clock + 1
                     IN  /\ arena_papers' = Upsert(arena_papers,
                                [paper_id |-> pid,
                                 review_score |->
                                   compute_composite_score(revs, maturity),
                                 maturity_level |-> maturity,
                                 rail_compliant |->
                                   InList("Rail Compliant", badges),
                                 review_count |-> Len(revs),
                                 badges |-> badges,
                                 promoted_at |-> now])
                         /\ papers' = [papers EXCEPT
                                         ![pid].status = "published_arena",
                                         ![pid].updated_at = now]
                         /\ clock' = now
                         /\ Ends(Returned([read EXCEPT !.now = now,
                                                        !.wrote = TRUE],
                                          "published_arena"))
  /\ UNCHANGED <<reviews, redteam_reports, meta_reviews, eval_results,
                 revisions, decision_logs>>

\* ------------------------------------------------------------ revisions
\* MAX(version) of the paper's revisions (0 stands for NULL)
MaxRevisionVersion(pid) ==
  LET rows == RowsOf(revisions, pid)
  IN  IF rows = <<>>
        THEN 0
        ELSE LET i == CHOOSE i \in DOMAIN rows :
                        \A j \in DOMAIN rows : rows[j].version <= rows[i].version
             IN  rows[i].version

\* submit_revision with the version of the branch "else 2" in every case
SubmitRevisionSecondVersion(pid) ==
  /\ ncalls' = ncalls + 1
  /\ LET call == NewCall(ncalls + 1, "submit_revision", pid, NONE)
         now == clock + 1
         new_version == 2
     IN  /\ papers' = IF Exists(pid)
                        THEN [papers EXCEPT ![pid].status = "re_review",
                                            ![pid].updated_at = now,
                                            ![pid].version = new_version]
                        ELSE papers
         /\ clock' = now
         /\ Ends(Returned([call EXCEPT !.now = now, !.wrote = Exists(pid)],
                          "re_review"))
  /\ UNCHANGED <<reviews, redteam_reports, meta_reviews, eval_results,
                 revisions, arena_papers, decision_logs>>

\* app.py: submit_revision
SubmitRevision(pid) ==
  /\ ncalls' = ncalls + 1
  /\ LET call == NewCall(ncalls + 1, "submit_revision", pid, NONE)
         now == clock + 1
         v == MaxRevisionVersion(pid)
         new_version == (IF v = 0 THEN 1 ELSE v) + 1
     IN  /\ papers' = IF Exists(pid)
                        THEN [papers EXCEPT ![pid].status = "re_review",
                                            ![pid].updated_at = now,
                                            ![pid].version = new_version]
                        ELSE papers
         /\ clock' = now
         /\ Ends(Returned([call EXCEPT !.now = now, !.wrote = Exists(pid)],
                          "re_review"))
  /\ UNCHANGED <<reviews, redteam_reports, meta_reviews, eval_results,
                 revisions, arena_papers, decision_logs>>

\* app.py: author_respond
AuthorRespond(pid, has_response_text) ==
  /\ ncalls' = ncalls + 1
  /\ LET call == NewCall(ncalls + 1, "author_respond", pid, NONE)
     IN  IF ~has_response_text
           THEN /\ Ends(Raised(call, "ValidationError"))
                /\ UNCHANGED <<papers, revisions, decision_logs, clock>>
         ELSE IF ~Exists(pid)
           THEN /\ NotFound(call)
                /\ UNCHANGED <<papers, revisions, decision_logs, clock>>
         ELSE
           LET paper == papers[pid]
               now == clock + 1
               version == paper.version + 1
               moves == paper.status \in {"revision", "rejected"}
               read == [call EXCEPT !.current = paper.status, !.now = now,
                                    !.wrote = TRUE]
           IN  /\ revisions' = Insert(revisions,
                    [paper_id |-> pid, by |-> call.id, version |-> version,
                     status |-> "submitted", created_at |-> now])
               /\ papers' = [papers EXCEPT
                    ![pid].updated_at = now,
                    ![pid].version = version,
                    ![pid].status = IF moves THEN "re_review" ELSE @]
               /\ clock' = now
               /\ \/ /\ decision_logs' = decision_logs
                     /\ AuditFails([read EXCEPT !.raised = "record_decision"])
                  \/ /\ decision_logs' =
                          record_decision(pid, "author_response", "author", "",
                                          call.id)
                     /\ Ends(Returned(read,
                               IF moves THEN "re_review" ELSE paper.status))
  /\ UNCHANGED <<reviews, redteam_reports, meta_reviews, eval_results,
                 arena_papers>>

\* whether the function takes the keywords api_key and api_provider that
\* app.py passes to it
AcceptsApiKey ==
  [generate_revisions |-> FALSE, apply_revisions |-> FALSE,
   generate_revision_letter |-> FALSE, run_full_pipeline |-> FALSE,
   meta_review |-> TRUE]

\* the ids of the suggestions generate_revisions returns
SuggestionIds == {"REV-001", "REV-002"}

\* app.py: apply_selected_revisions, the suggestions read from the
\* changes_summary of a row: the list revise_paper stored in a draft, nothing
\* from the dictionaries author_respond and apply_selected_revisions store
Suggestions(row) == IF row.status = "draft" THEN SuggestionIds ELSE {}

\* "ORDER BY version DESC LIMIT 1" over rows that are there
LatestRevision(rows) ==
  rows[CHOOSE i \in DOMAIN rows :
         \A j \in DOMAIN rows : rows[j].version <= rows[i].version]

\* app.py: revise_paper
RevisePaper(pid) ==
  /\ ncalls' = ncalls + 1
  /\ LET call == NewCall(ncalls + 1, "revise_paper", pid, NONE)
     IN  IF ~Exists(pid)
           THEN /\ NotFound(call)
                /\ UNCHANGED <<revisions, clock>>
         ELSE
           LET read == [call EXCEPT !.current = papers[pid].status,
                                    !.invoked = <<"generate_revisions">>]
               now == clock + 1
               version == papers[pid].version + 1
           IN  IF ~AcceptsApiKey.generate_revisions
                 THEN /\ AdapterFails([read EXCEPT
                                         !.raised = "generate_revisions"])
                      /\ UNCHANGED <<revisions, clock>>
                 ELSE \/ /\ AdapterFails([read EXCEPT
                                            !.raised = "generate_revisions"])
                         /\ UNCHANGED <<revisions, clock>>
                      \/ /\ revisions' = Insert(revisions,
                              [paper_id |-> pid, by |-> call.id,
                               version |-> version, status |-> "draft",
                               created_at |-> now])
                         /\ clock' = now
                         /\ Ends(Returned([read EXCEPT !.now = now,
                                                        !.wrote = TRUE],
                                          "draft"))
  /\ UNCHANGED <<papers, reviews, redteam_reports, meta_reviews, eval_results,
                 arena_papers, decision_logs>>

\* app.py: apply_selected_revisions
ApplySelectedRevisions(pid, accepted_ids) ==
  /\ ncalls' = ncalls + 1
  /\ LET call == NewCall(ncalls + 1, "apply_selected_revisions", pid, NONE)
         rows == RowsOf(revisions, pid)
         fails(c, error) ==
           /\ Ends(Raised(c, error))
           /\ UNCHANGED <<papers, revisions, clock>>
     IN  IF accepted_ids = {}
           THEN fails(call, "ValidationError")
         ELSE IF ~Exists(pid)
           THEN /\ NotFound(call)
                /\ UNCHANGED <<papers, revisions, clock>>
         ELSE
           LET paper == papers[pid]
               read == [call EXCEPT !.current = paper.status]
           IN  IF rows = <<>>
                 THEN fails(read, "ValidationError")
               ELSE IF Suggestions(LatestRevision(rows)) \cap accepted_ids = {}
                 THEN fails(read, "ValidationError")
               ELSE
                 LET tried == [read EXCEPT !.invoked = <<"apply_revisions">>,
                                           !.raised = "apply_revisions"]
                     now == clock + 1
                     new_version == paper.version + 1
                 IN  IF ~AcceptsApiKey.apply_revisions
                       THEN fails(tried, "AdapterFailure")
                       ELSE
                         \/ fails(tried, "AdapterFailure")
                         \/ /\ papers' = [papers EXCEPT
                                            ![pid].version = new_version,
                                            ![pid].updated_at = now]
                            /\ revisions' = Insert(revisions,
                                 [paper_id |-> pid, by |-> call.id,
                                  version |-> new_version,
                                  status |-> "applied", created_at |-> now])
                            /\ clock' = now
                            /\ Ends(Returned([read EXCEPT
                                                !.invoked = <<"apply_revisions">>,
                                                !.now = now, !.wrote = TRUE],
                                             "applied"))
  /\ UNCHANGED <<reviews, redteam_reports, meta_reviews, eval_results,
                 arena_papers, decision_logs>>

\* Spec: the operations called one at a time, each running to its end
Next ==
  \/ SubmitPaper
  \/ \E pid \in PaperIds, s \in StatusArgs :
       SeqBegin /\ TransitionSelect(pid, s)
  \/ \E pid \in PaperIds : SeqBegin /\ ReviewSelect(pid)
  \/ \E pid \in PaperIds : SeqBegin /\ RailSelect(pid)
  \/ \E pid \in PaperIds : SeqBegin /\ Promote(pid)
  \/ \E pid \in PaperIds : SeqBegin /\ SubmitRevision(pid)
  \/ \E pid \in PaperIds, t \in BOOLEAN : SeqBegin /\ AuthorRespond(pid, t)
  \/ \E c \in DOMAIN active : TransitionUpdate(c)
  \/ \E c \in DOMAIN active : ReviewEntry(c)
  \/ \E c \in DOMAIN active : ReviewPeer(c)
  \/ \E c \in DOMAIN active : ReviewPeerRecord(c)
  \/ \E c \in DOMAIN active : ReviewRedteam(c)
  \/ \E c \in DOMAIN active : ReviewRedteamRecord(c)
  \/ \E c \in DOMAIN active : ReviewMeta(c)
  \/ \E c \in DOMAIN active : ReviewMetaRecord(c)
  \/ \E c \in DOMAIN active : ReviewFinal(c)
  \/ \E c \in DOMAIN active : RailEvaluate(c)
  \/ \E c \in DOMAIN active : RailRecord(c)

Spec == Init /\ [][Next]_vars

\* ConcSpec: calls overlap, on as many workers as there are
ConcNext ==
  \/ SubmitPaper
  \/ \E pid \in PaperIds, s \in StatusArgs :
       ConcBegin /\ TransitionSelect(pid, s)
  \/ \E pid \in PaperIds : ConcBegin /\ ReviewSelect(pid)
  \/ \E pid \in PaperIds : ConcBegin /\ RailSelect(pid)
  \/ \E pid \in PaperIds : ConcBegin /\ Promote(pid)
  \/ \E pid \in PaperIds : ConcBegin /\ SubmitRevision(pid)
  \/ \E pid \in PaperIds, t \in BOOLEAN : ConcBegin /\ AuthorRespond(pid, t)
  \/ \E c \in DOMAIN active : TransitionUpdate(c)
  \/ \E c \in DOMAIN active : ReviewEntry(c)
  \/ \E c \in DOMAIN active : ReviewPeer(c)
  \/ \E c \in DOMAIN active : ReviewPeerRecord(c)
  \/ \E c \in DOMAIN active : ReviewRedteam(c)
  \/ \E c \in DOMAIN active : ReviewRedteamRecord(c)
  \/ \E c \in DOMAIN active : ReviewMeta(c)
  \/ \E c \in DOMAIN active : ReviewMetaRecord(c)
  \/ \E c \in DOMAIN active : ReviewFinal(c)
  \/ \E c \in DOMAIN active : RailEvaluate(c)
  \/ \E c \in DOMAIN active : RailRecord(c)

ConcSpec == Init /\ [][ConcNext]_vars

\* ------------------------------------------------------------ the audit log
\* the calls of LogSpec
MaxLogCalls == 4

\* the action types the callers of record_decision pass in LogSpec
LogActions == {"peer_review", "meta_review"}

\* no log file yet; hist follows the calls for every paper id there is
LogInit ==
  /\ papers = <<>>
  /\ reviews = <<>>
  /\ redteam_reports = <<>>
  /\ meta_reviews = <<>>
  /\ eval_results = <<>>
  /\ revisions = <<>>
  /\ arena_papers = <<>>
  /\ decision_logs = <<>>
  /\ active = <<>>
  /\ ncalls = 0
  /\ last = NoCall
  /\ hist = [pid \in PaperIds |-> <<>>]
  /\ clock = 0

LogBegin == DOMAIN active = {} /\ ncalls < MaxLogCalls

\* decision_record.py: record_decision, called on its own; the write is
\* whole, or open() fails and the file is as it was
LogRecord(pid, action_type) ==
  /\ ncalls' = ncalls + 1
  /\ LET call == [NewCall(ncalls + 1, "record_decision", pid, NONE)
                    EXCEPT !.wrote = TRUE]
     IN  \/ /\ decision_logs' =
                  record_decision(pid, action_type, "claude-opus", "", call.id)
            /\ Ends(Returned(call, action_type))
         \/ /\ decision_logs' = decision_logs
            /\ AuditFails([call EXCEPT !.raised = "record_decision"])
  /\ UNCHANGED <<papers, reviews, redteam_reports, meta_reviews, eval_results,
                 revisions, arena_papers, clock>>

\* decision_record.py: record_decision, f.write fails after a part of the
\* line is in the file
LogTornWrite(pid, action_type) ==
  /\ ncalls' = ncalls + 1
  /\ LET call == [NewCall(ncalls + 1, "record_decision", pid, NONE)
                    EXCEPT !.wrote = TRUE]
     IN  /\ decision_logs' =
              torn_write(pid, action_type, "claude-opus", "", call.id)
         /\ AuditFails([call EXCEPT !.raised = "record_decision"])
  /\ UNCHANGED <<papers, reviews, redteam_reports, meta_reviews, eval_results,
                 revisions, arena_papers, clock>>

\* decision_record.py: get_decisions, called on its own
LogRead(pid) ==
  /\ ncalls' = ncalls + 1
  /\ Ends(Returned(NewCall(ncalls + 1, "get_decisions", pid, NONE),
                   get_decisions(decision_logs, pid)))
  /\ UNCHANGED <<tables, clock>>

\* LogSpec: the audit log written and read, one call after the other
LogNext ==
  \/ \E pid \in PaperIds, a \in LogActions : LogBegin /\ LogRecord(pid, a)
  \/ \E pid \in PaperIds, a \in LogActions : LogBegin /\ LogTornWrite(pid, a)
  \/ \E pid \in PaperIds : LogBegin /\ LogRead(pid)

LogSpec == LogInit /\ [][LogNext]_vars

\* ------------------------------------------------------------ the review endpoints
\* the calls of ApiSpec
MaxApiCalls == 2

ApiBegin == DOMAIN active = {} /\ ncalls < MaxApiCalls

\* app.py: meta_review_endpoint: 404 without the paper, 400 without a review
\* row, 500 when the adapter raises, else the INSERT and the commit
MetaReviewEndpoint(pid) ==
  /\ ncalls' = ncalls + 1
  /\ LET call == NewCall(ncalls + 1, "meta_review_endpoint", pid, NONE)
         now == clock + 1
     IN  IF ~Exists(pid)
           THEN /\ NotFound(call)
                /\ UNCHANGED <<meta_reviews, clock>>
         ELSE IF RowsOf(reviews, pid) = <<>>
           THEN /\ Ends(Raised(call, "PeerReviewRequired"))
                /\ UNCHANGED <<meta_reviews, clock>>
         ELSE
           LET read == [call EXCEPT !.current = papers[pid].status,
                                    !.invoked = <<"meta_review">>]
           IN  \/ /\ AdapterFails([read EXCEPT !.raised = "meta_review"])
                  /\ UNCHANGED <<meta_reviews, clock>>
               \/ \E meta_result \in MetaResults :
                    /\ meta_reviews' = Insert(meta_reviews,
                         [paper_id |-> pid, by |-> call.id,
                          final_recommendation |->
                            Get(meta_result, "final_recommendation", ""),
                          maturity_level |->
                            Get(meta_result, "maturity_level", "L0"),
                          created_at |-> now])
                    /\ clock' = now
                    /\ Ends(Returned([read EXCEPT !.now = now,
                                                  !.wrote = TRUE,
                                                  !.meta = meta_result],
                                     Get(meta_result, "final_recommendation",
                                         "")))
  /\ UNCHANGED <<papers, reviews, redteam_reports, eval_results, revisions,
                 arena_papers, decision_logs>>

\* ApiSpec: the review run and the meta-review endpoint, one call at a time
ApiNext ==
  \/ SubmitPaper
  \/ \E pid \in PaperIds : ApiBegin /\ ReviewSelect(pid)
  \/ \E pid \in PaperIds : ApiBegin /\ MetaReviewEndpoint(pid)
  \/ \E c \in DOMAIN active : ReviewEntry(c)
  \/ \E c \in DOMAIN active : ReviewPeer(c)
  \/ \E c \in DOMAIN active : ReviewPeerRecord(c)
  \/ \E c \in DOMAIN active : ReviewRedteam(c)
  \/ \E c \in DOMAIN active : ReviewRedteamRecord(c)
  \/ \E c \in DOMAIN active : ReviewMeta(c)
  \/ \E c \in DOMAIN active : ReviewMetaRecord(c)
  \/ \E c \in DOMAIN active : ReviewFinal(c)

ApiSpec == Init /\ [][ApiNext]_vars

\* ------------------------------------------------------------ run_full_pipeline
\* orchestrator.py: run_full_pipeline, the phases before Publish and the
\* function each calls
PIPELINE_PHASES == <<"idea", "novelty", "method", "compose">>

PIPELINE_ADAPTERS ==
  <<"run_idea_pipeline", "run_novelty_check", "run_methodology_pipeline",
    "compose_full_paper">>

\* orchestrator.py: run_full_pipeline, the steps it emits, in the order of
\* the emit statements
PIPELINE_EVENTS ==
  <<"idea_start", "idea_done", "novelty_start", "novelty_done",
    "method_start", "method_done", "compose_start", "compose_done",
    "submit_start", "submit_done", "review_start", "review_done",
    "revise_start", "revise_done", "pipeline_complete">>

\* emit(step, data): the callback is called before emit returns
Emit(call, step) == [call EXCEPT !.emitted = Append(@, step)]

\* the call begins; no paper yet (paper_id 0)
PipeStart ==
  /\ ncalls' = ncalls + 1
  /\ Continues([NewCall(ncalls + 1, "run_full_pipeline", 0, NONE)
                  EXCEPT !.pc = "idea"])
  /\ UNCHANGED <<tables, clock>>

\* a failing phase is passed over and the run goes on to the next phase
PipePhaseSwallows(c) ==
  /\ active[c].op = "run_full_pipeline"
  /\ \E i \in DOMAIN PIPELINE_PHASES :
       /\ active[c].pc = PIPELINE_PHASES[i]
       /\ LET next_pc == IF i < Len(PIPELINE_PHASES)
                           THEN PIPELINE_PHASES[i + 1] ELSE "submit"
              started == [Emit(active[c], PIPELINE_EVENTS[2 * i - 1])
                            EXCEPT !.invoked = Append(@, PIPELINE_ADAPTERS[i])]
          IN  \/ Continues([started EXCEPT !.raised = PIPELINE_ADAPTERS[i],
                                           !.pc = next_pc])
              \/ Continues([Emit(started, PIPELINE_EVENTS[2 * i])
                              EXCEPT !.pc = next_pc])
  /\ UNCHANGED <<tables, ncalls, clock>>

\* orchestrator.py: run_full_pipeline, one of the phases idea, novelty,
\* method, compose: emit _start, the call, emit _done
PipePhase(c) ==
  /\ active[c].op = "run_full_pipeline"
  /\ \E i \in DOMAIN PIPELINE_PHASES :
       /\ active[c].pc = PIPELINE_PHASES[i]
       /\ LET next_pc == IF i < Len(PIPELINE_PHASES)
                           THEN PIPELINE_PHASES[i + 1] ELSE "submit"
              started == [Emit(active[c], PIPELINE_EVENTS[2 * i - 1])
                            EXCEPT !.invoked = Append(@, PIPELINE_ADAPTERS[i])]
          IN  \/ AdapterFails([started EXCEPT !.raised = PIPELINE_ADAPTERS[i]])
              \/ Continues([Emit(started, PIPELINE_EVENTS[2 * i])
                              EXCEPT !.pc = next_pc])
  /\ UNCHANGED <<tables, ncalls, clock>>

\* orchestrator.py: run_full_pipeline, Publish: emit submit_start,
\* generate_paper_id() and the read of the clock
PipeGenerateId(c) ==
  /\ active[c].op = "run_full_pipeline"
  /\ active[c].pc = "submit"
  /\ Continues([Emit(active[c], "submit_start")
                  EXCEPT !.pc = "insert", !.paper_id = generate_paper_id,
                         !.now = clock + 1])
  /\ clock' = clock + 1
  /\ UNCHANGED <<tables, ncalls>>

\* orchestrator.py: run_full_pipeline, Publish: INSERT INTO papers (the
\* column paper_id is UNIQUE), commit, emit submit_done
PipeInsert(c) ==
  /\ active[c].op = "run_full_pipeline"
  /\ active[c].pc = "insert"
  /\ LET call == active[c]
         paper_id == call.paper_id
     IN  IF paper_id \in DOMAIN papers
           THEN /\ Ends(Raised(call, "IntegrityError"))
                /\ papers' = papers
           ELSE /\ papers' = papers @@
                     (paper_id :> [id |-> Cardinality(DOMAIN papers) + 1,
                                   status |-> "submitted",
                                   maturity_level |-> "L0",
                                   version |-> 1, created_at |-> call.now,
                                   updated_at |-> call.now])
                /\ active' = (c :> [Emit(call, "submit_done")
                                      EXCEPT !.pc = "submit_record",
                                             !.wrote = TRUE]) @@ active
                /\ hist' = hist @@ (paper_id :> <<>>)
                /\ last' = last
  /\ UNCHANGED <<reviews, redteam_reports, meta_reviews, eval_results,
                 revisions, arena_papers, decision_logs, ncalls, clock>>

\* orchestrator.py: run_full_pipeline,
\* record_decision(paper_id, "full_pipeline_submit", "system", "", ..)
PipeSubmitRecord(c) ==
  /\ active[c].op = "run_full_pipeline"
  /\ active[c].pc = "submit_record"
  /\ LET call == active[c]
     IN  \/ /\ AuditFails([call EXCEPT !.raised = "record_decision"])
            /\ decision_logs' = decision_logs
         \/ /\ decision_logs' =
                 record_decision(call.paper_id, "full_pipeline_submit",
                                 "system", "", c)
            /\ Continues([call EXCEPT !.pc = "review"])
  /\ UNCHANGED <<papers, reviews, redteam_reports, meta_reviews, eval_results,
                 revisions, arena_papers, ncalls, clock>>

\* orchestrator.py: run_full_pipeline, emit review_start; the call of
\* run_full_review that follows is the next call there is
PipeReview(c) ==
  /\ active[c].op = "run_full_pipeline"
  /\ active[c].pc = "review"
  /\ Continues([Emit(active[c], "review_start")
                  EXCEPT !.pc = "run_full_review", !.child = ncalls + 1])
  /\ UNCHANGED <<tables, ncalls, clock>>

\* orchestrator.py: run_full_pipeline, run_full_review(paper_id) is entered
PipeCallReview(c) ==
  /\ active[c].op = "run_full_pipeline"
  /\ active[c].pc = "run_full_review"
  /\ ncalls < active[c].child
  /\ ReviewSelect(active[c].paper_id)

\* orchestrator.py: run_full_pipeline, run_full_review has returned or
\* raised: its exception is the run's, else emit review_done
PipeReviewReturn(c) ==
  /\ active[c].op = "run_full_pipeline"
  /\ active[c].pc = "run_full_review"
  /\ ncalls >= active[c].child
  /\ active[c].child \notin DOMAIN active
  /\ last.id = active[c].child
  /\ IF last.error # NONE
       THEN Ends(Raised([active[c] EXCEPT !.raised = "run_full_review"],
                        last.error))
       ELSE Continues([Emit(active[c], "review_done") EXCEPT !.pc = "revise"])
  /\ UNCHANGED <<tables, ncalls, clock>>

\* orchestrator.py: run_full_pipeline, Revise: emit revise_start,
\* generate_revisions, emit revise_done, emit pipeline_complete, return
PipeRevise(c) ==
  /\ active[c].op = "run_full_pipeline"
  /\ active[c].pc = "revise"
  /\ LET started == [Emit(active[c], "revise_start")
                       EXCEPT !.invoked = Append(@, "generate_revisions")]
     IN  \/ AdapterFails([started EXCEPT !.raised = "generate_revisions"])
         \/ Ends(Returned(Emit(Emit(started, "revise_done"),
                                "pipeline_complete"),
                          "results"))
  /\ UNCHANGED <<tables, ncalls, clock>>

\* the calls of PipeSpec, the calls of run_full_review the runs make included
MaxPipeCalls == 4

\* a run begins when none is under way and there is room for it and for its
\* call of run_full_review
PipeBegin == DOMAIN active = {} /\ ncalls + 1 < MaxPipeCalls

\* PipeSpec: run_full_pipeline called with a callback, one run at a time
PipeNext ==
  \/ PipeBegin /\ PipeStart
  \/ \E c \in DOMAIN active : PipePhase(c)
  \/ \E c \in DOMAIN active : PipeGenerateId(c)
  \/ \E c \in DOMAIN active : PipeInsert(c)
  \/ \E c \in DOMAIN active : PipeSubmitRecord(c)
  \/ \E c \in DOMAIN active : PipeReview(c)
  \/ \E c \in DOMAIN active : PipeCallReview(c)
  \/ \E c \in DOMAIN active : PipeReviewReturn(c)
  \/ \E c \in DOMAIN active : PipeRevise(c)
  \/ \E c \in DOMAIN active : ReviewEntry(c)
  \/ \E c \in DOMAIN active : ReviewPeer(c)
  \/ \E c \in DOMAIN active : ReviewPeerRecord(c)
  \/ \E c \in DOMAIN active : ReviewRedteam(c)
  \/ \E c \in DOMAIN active : ReviewRedteamRecord(c)
  \/ \E c \in DOMAIN active : ReviewMeta(c)
  \/ \E c \in DOMAIN active : ReviewMetaRecord(c)
  \/ \E c \in DOMAIN active : ReviewFinal(c)

PipeSpec == Init /\ [][PipeNext]_vars

\* ------------------------------------------------------------ stream_full_pipeline
\* app.py: stream_full_pipeline, what run_pipeline has put into event_queue
\* for the consumer `stream`: the callback puts each step the run emits, and
\* run_pipeline puts _result or _error when the call has returned or raised
EventQueue(stream) ==
  LET t == stream.child
  IN  IF t \in DOMAIN active THEN active[t].emitted
      ELSE IF last.id # t THEN <<>>
      ELSE Append(last.emitted,
                  IF last.error = NONE THEN "_result" ELSE "_error")

\* app.py: stream_full_pipeline, generate() up to thread.start(): the
\* consumer (the next call) and the thread of run_pipeline (the one after)
StreamStart(has_topic) ==
  LET s == ncalls + 1
      t == ncalls + 2
      stream == [NewCall(s, "stream_full_pipeline", 0, NONE)
                   EXCEPT !.pc = "get"]
  IN  IF ~has_topic
        THEN /\ ncalls' = s
             /\ Ends(Raised([stream EXCEPT !.yielded = <<"error">>],
                            "ValidationError"))
        ELSE /\ ncalls' = t
             /\ active' =
                  (s :> [stream EXCEPT !.child = t]) @@
                  (t :> [NewCall(t, "run_full_pipeline", 0, NONE)
                           EXCEPT !.pc = "call", !.thread = TRUE]) @@ active
             /\ UNCHANGED <<last, hist>>

\* app.py: stream_full_pipeline.run_pipeline, the call
\* run_full_pipeline(topic, authors, callback=callback, api_key=..,
\* api_provider=..) and the except clause around it
StreamThreadCall(t) ==
  /\ active[t].op = "run_full_pipeline"
  /\ active[t].pc = "call"
  /\ IF AcceptsApiKey.run_full_pipeline
       THEN Continues([active[t] EXCEPT !.pc = "idea"])
       ELSE Ends(Raised([active[t] EXCEPT !.raised = "run_full_pipeline"],
                        "TypeError"))

\* app.py: stream_full_pipeline, event_queue.get returns an item: the
\* oldest that was not taken yet
StreamGet(s) ==
  /\ active[s].op = "stream_full_pipeline"
  /\ active[s].pc = "get"
  /\ LET stream == active[s]
         items == EventQueue(stream)
         taken == Len(stream.yielded)
     IN  /\ taken < Len(items)
         /\ LET step == items[taken + 1]
            IN  IF step = "_result"
                  THEN Ends(Returned([stream EXCEPT !.yielded =
                                        Append(@, "pipeline_complete")],
                                     "pipeline_complete"))
                ELSE IF step = "_error"
                  THEN Ends(Raised([stream EXCEPT !.yielded =
                                      Append(@, "error")],
                                   "PipelineError"))
                ELSE Continues([stream EXCEPT !.yielded = Append(@, step)])

\* app.py: stream_full_pipeline, event_queue.get(timeout=300) raises
\* queue.Empty: no item came in the time
StreamTimeout(s) ==
  /\ active[s].op = "stream_full_pipeline"
  /\ active[s].pc = "get"
  /\ LET stream == active[s]
     IN  /\ Len(stream.yielded) = Len(EventQueue(stream))
         /\ Ends(Raised([stream EXCEPT !.yielded = Append(@, "error")],
                        "Timeout"))

\* the calls of StreamSpec
MaxStreamCalls == 4

\* a request or a direct run begins when nothing is under way and there is
\* room for it and for the call it makes
StreamBegin == DOMAIN active = {} /\ ncalls + 1 < MaxStreamCalls

\* StreamSpec: requests of stream_full_pipeline, each with its thread, and
\* direct calls of run_full_pipeline
StreamNext ==
  \/ \E has_topic \in BOOLEAN : StreamBegin /\ StreamStart(has_topic)
     /\ UNCHANGED <<tables, clock>>
  \/ \E t \in DOMAIN active : StreamThreadCall(t)
     /\ UNCHANGED <<tables, ncalls, clock>>
  \/ \E s \in DOMAIN active : StreamGet(s)
     /\ UNCHANGED <<tables, ncalls, clock>>
  \/ \E s \in DOMAIN active : StreamTimeout(s)
     /\ UNCHANGED <<tables, ncalls, clock>>
  \/ PipeBegin /\ PipeStart
  \/ \E c \in DOMAIN active : PipePhase(c)
  \/ \E c \in DOMAIN active : PipeGenerateId(c)
  \/ \E c \in DOMAIN active : PipeInsert(c)
  \/ \E c \in DOMAIN active : PipeSubmitRecord(c)
  \/ \E c \in DOMAIN active : PipeReview(c)
  \/ \E c \in DOMAIN active : PipeCallReview(c)
  \/ \E c \in DOMAIN active : PipeReviewReturn(c)
  \/ \E c \in DOMAIN active : PipeRevise(c)
  \/ \E c \in DOMAIN active : ReviewEntry(c)
  \/ \E c \in DOMAIN active : ReviewPeer(c)
  \/ \E c \in DOMAIN active : ReviewPeerRecord(c)
  \/ \E c \in DOMAIN active : ReviewRedteam(c)
  \/ \E c \in DOMAIN active : ReviewRedteamRecord(c)
  \/ \E c \in DOMAIN active : ReviewMeta(c)
  \/ \E c \in DOMAIN active : ReviewMetaRecord(c)
  \/ \E c \in DOMAIN active : ReviewFinal(c)

StreamSpec == Init /\ [][StreamNext]_vars

\* ------------------------------------------------------------ reviews that overlap
\* each worker makes one call of run_full_review, when it likes
RaceBegin == ncalls < Cardinality(Workers)

\* RaceSpec: two calls of run_full_review on different threads, no lock
\* between them
RaceNext ==
  \/ SubmitPaper
  \/ \E pid \in PaperIds : RaceBegin /\ ReviewSelect(pid)
  \/ \E c \in DOMAIN active : ReviewEntry(c)
  \/ \E c \in DOMAIN active : ReviewPeer(c)
  \/ \E c \in DOMAIN active : ReviewPeerRecord(c)
  \/ \E c \in DOMAIN active : ReviewRedteam(c)
  \/ \E c \in DOMAIN active : ReviewRedteamRecord(c)
  \/ \E c \in DOMAIN active : ReviewMeta(c)
  \/ \E c \in DOMAIN active : ReviewMetaRecord(c)
  \/ \E c \in DOMAIN active : ReviewFinal(c)

RaceSpec == Init /\ [][RaceNext]_vars

\* ------------------------------------------------------------ creations of papers
\* the calls of IdSpec
MaxIdCalls == 3

\* IdSpec follows a run up to the commit of its INSERT; a run begins when a
\* worker is free of the runs that have not come that far
IdBegin ==
  /\ Cardinality({c \in DOMAIN active : active[c].pc # "submit_record"})
       < Cardinality(Workers)
  /\ ncalls < MaxIdCalls

\* IdSpec: submit_paper and the Publish phase of runs of run_full_pipeline
\* on different threads
IdNext ==
  \/ SubmitPaper
  \/ IdBegin /\ PipeStart
  \/ \E c \in DOMAIN active : PipePhase(c)
  \/ \E c \in DOMAIN active : PipeGenerateId(c)
  \/ \E c \in DOMAIN active : PipeInsert(c)

IdSpec == Init /\ [][IdNext]_vars

\* ------------------------------------------------------------ revisions alone
\* the calls of RevSpec
MaxRevCalls == 4

\* the accepted_ids of the requests of RevSpec
AcceptedIds == {{}, {"REV-001"}}

\* the handlers of app.py are coroutines that do not await between their
\* first read and their commit: one runs at a time
RevBegin == DOMAIN active = {} /\ ncalls < MaxRevCalls

RevNext ==
  \/ SubmitPaper
  \/ \E pid \in PaperIds : RevBegin /\ RevisePaper(pid)
  \/ \E pid \in PaperIds, accepted_ids \in AcceptedIds :
       RevBegin /\ ApplySelectedRevisions(pid, accepted_ids)
  \/ \E pid \in PaperIds : RevBegin /\ SubmitRevision(pid)
  \/ \E pid \in PaperIds, t \in BOOLEAN : RevBegin /\ AuthorRespond(pid, t)

RevSpec == Init /\ [][RevNext]_vars

\* ------------------------------------------------------------ promotions alone
\* the calls of BadgeSpec
MaxBadgeCalls == 2

\* the rows of one table a reviewed paper may have: at most MaxBadgeRows
MaxBadgeRows == 2

\* database.py: the maturity levels a paper's row may hold
BadgeMaturities == {"L0", "L1", "L2", "L3", "L4", "L5"}

\* the overall_risk of the red team reports of BadgeSpec
BadgeRisks == {"low", "high"}

\* the scores of the eval results of BadgeSpec
BadgeScores == {4, 5}

\* the sequences over S of length at most n
SeqsUpTo(S, n) == UNION {[1 .. k -> S] : k \in 0 .. n}

\* a paper that run_full_review has reviewed once, then any red team reports
\* and eval results inserted one after the other, and any maturity written
BadgeInit ==
  /\ \E maturity \in BadgeMaturities :
       papers = (FirstPaperNum :>
                   [id |-> 1, status |-> "accepted",
                    maturity_level |-> maturity, version |-> 1,
                    created_at |-> 1, updated_at |-> 2])
  /\ reviews = <<[paper_id |-> FirstPaperNum, by |-> 0, review_layer |-> "full",
                  overall_score |-> 6, soundness |-> 4, novelty |-> 4,
                  created_at |-> 2]>>
  /\ \E risks \in SeqsUpTo(BadgeRisks, MaxBadgeRows) :
       redteam_reports =
         [i \in DOMAIN risks |->
            [paper_id |-> FirstPaperNum, by |-> 0, overall_risk |-> risks[i],
             created_at |-> 2 + i]]
  /\ meta_reviews = <<>>
  /\ \E scores \in SeqsUpTo(BadgeScores, MaxBadgeRows) :
       eval_results =
         [i \in DOMAIN scores |->
            [paper_id |-> FirstPaperNum, by |-> 0, scenario |-> EvalScenarios[i],
             score |-> scores[i], created_at |-> 5]]
  /\ revisions = <<>>
  /\ arena_papers = <<>>
  /\ decision_logs = <<>>
  /\ active = <<>>
  /\ ncalls = 0
  /\ last = NoCall
  /\ hist = (FirstPaperNum :> <<>>)
  /\ clock = 5

BadgeBegin == DOMAIN active = {} /\ ncalls < MaxBadgeCalls

BadgeNext == BadgeBegin /\ \E pid \in PaperIds : Promote(pid)

BadgeSpec == BadgeInit /\ [][BadgeNext]_vars

\* ------------------------------------------------------------ properties
\* a call ends in this step
EndsCall(op) == last'.id # last.id /\ last'.op = op

\* C1 State machine totality: a transition_paper call on a paper whose
\* status is S, asking for X, returns X and leaves the persisted status X
\* when X is in VALID_TRANSITIONS[S], and only then; otherwise it fails with
\* the invalid-transition error and the paper's status and updated_at are
\* what they were.
C1_TransitionTotality ==
  [][\A pid \in DOMAIN papers :
       (EndsCall("transition_paper") /\ last'.paper_id = pid) =>
         LET S == papers[pid].status
             X == last'.new_status
         IN  /\ last'.current = S
             /\ IF InList(X, VALID_TRANSITIONS[S])
                  THEN /\ last'.error = NONE
                       /\ last'.returned = X
                       /\ papers'[pid].status = X
                  ELSE /\ last'.error = "InvalidTransition"
                       /\ papers'[pid].status = S
                       /\ papers'[pid].updated_at = papers[pid].updated_at]_vars

\* C1 witness: a transition that was accepted is behind the paper, and the
\* call that has just ended was refused
C1_Witness ==
  /\ Idle
  /\ last.op = "transition_paper"
  /\ last.error = "InvalidTransition"
  /\ last.paper_id \in DOMAIN hist
  /\ \E i \in DOMAIN hist[last.paper_id] :
       /\ hist[last.paper_id][i].op = "transition_paper"
       /\ hist[last.paper_id][i].error = NONE

\* C2 Transitions only happen via declared edges: every change of a paper's
\* status, by whatever operation, goes from a status S to a status in
\* VALID_TRANSITIONS[S].
C2_OnlyDeclaredEdges ==
  [][\A pid \in DOMAIN papers :
       papers'[pid].status # papers[pid].status =>
         InList(papers'[pid].status, VALID_TRANSITIONS[papers[pid].status])]_vars

\* C3 published_arena is terminal: once a paper's status is published_arena
\* no operation changes it.
C3_PublishedArenaTerminal ==
  [][\A pid \in DOMAIN papers :
       papers[pid].status = "published_arena" =>
         papers'[pid].status = "published_arena"]_vars

\* the status the specification gives for a persisted final_recommendation
\* ("" is what the row holds when the adapter's result has no such field)
MappedStatus(final_recommendation) ==
  CASE final_recommendation = "accept" -> "accepted"
    [] final_recommendation = "reject" -> "rejected"
    [] OTHER -> "revision"

\* C4 Recommendation mapping: when a run_full_review has returned, the
\* paper's persisted status and the returned new_status are accepted for the
\* recommendation "accept" of its Meta-Review, rejected for "reject", and
\* revision for every other value or a missing field.
C4_RecommendationMapping ==
  (Idle /\ last.op = "run_full_review" /\ last.error = NONE) =>
    LET rows == RowsBy(meta_reviews, last.id)
    IN  /\ Len(rows) = 1
        /\ papers[last.paper_id].status = MappedStatus(rows[1].final_recommendation)
        /\ last.returned = MappedStatus(rows[1].final_recommendation)

\* C4 witness: a run whose Meta-Review has no final_recommendation has
\* returned, and the paper is in revision
C4_Witness ==
  /\ Idle
  /\ last.op = "run_full_review"
  /\ last.error = NONE
  /\ last.meta.final_recommendation = MISSING
  /\ last.returned = "revision"
  /\ papers[last.paper_id].status = "revision"

\* the adapters of the three stages and the action types of their decision
\* records, in stage order
STAGE_ADAPTERS == <<"review_paper", "redteam_paper", "meta_review">>
STAGE_RECORDS == <<"peer_review", "redteam", "meta_review">>

\* the action types of the decision records one call wrote for a paper
ActionTypes(records) == [i \in DOMAIN records |-> records[i].action_type]
RecordsBy(pid, c) == ActionTypes(SelectSeq(LogOf(pid), LAMBDA d : d.by = c))

\* the action types of all the decision records of a paper
RecordsOf(pid) == ActionTypes(LogOf(pid))

\* table holds n rows for the paper, the i-th written by the i-th of calls
RowsAreBy(table, pid, calls) ==
  LET rows == RowsOf(table, pid)
  IN  /\ Len(rows) = Len(calls)
      /\ \A i \in DOMAIN rows : rows[i].by = calls[i]

IsPrefix(s, t) == Len(s) <= Len(t) /\ SubSeq(t, 1, Len(s)) = s

IsRun(r) == r.op = "run_full_review"

\* C5, the entry step: right after it the status is under_review if the run
\* read submitted, and otherwise what the run read
C5_Entry ==
  \A c \in DOMAIN active :
    (IsRun(active[c]) /\ active[c].pc = "peer") =>
      LET call == active[c]
      IN  /\ call.entered <=> (call.current = "submitted")
          /\ papers[call.paper_id].status =
               IF call.current = "submitted" THEN "under_review"
               ELSE call.current

\* C5, two runs: the paper's history is two runs that returned
C5_TwoRuns(pid) ==
  /\ Idle
  /\ Len(hist[pid]) = 2
  /\ \A i \in 1..2 : IsRun(hist[pid][i]) /\ hist[pid][i].error = NONE

C5_Twice ==
  \A pid \in DOMAIN hist :
    C5_TwoRuns(pid) =>
      LET first == hist[pid][1]
          second == hist[pid][2]
          both == <<first.id, second.id>>
      IN  /\ first.current = "submitted" /\ first.entered
          /\ second.current # "submitted" /\ ~second.entered
          /\ RowsAreBy(reviews, pid, both)
          /\ RowsAreBy(redteam_reports, pid, both)
          /\ RowsAreBy(meta_reviews, pid, both)

\* C5, nothing overwritten: a step leaves the rows of the three tables as
\* they are and at most adds rows after them
C5_AppendOnly ==
  /\ IsPrefix(reviews, reviews')
  /\ IsPrefix(redteam_reports, redteam_reports')
  /\ IsPrefix(meta_reviews, meta_reviews')

\* C5 Idempotent entry: run_full_review sets under_review at entry only when
\* the status it read is submitted; two runs in sequence on a submitted paper
\* make exactly one submitted -> under_review transition and add two
\* independent sets of Review, Red-Team and Meta-Review rows, and no step
\* overwrites an earlier row.
C5_IdempotentEntry == [](C5_Entry /\ C5_Twice) /\ [][C5_AppendOnly]_vars

\* C5 witness: two runs have returned on the paper, one after the other
C5_Witness == \E pid \in DOMAIN hist : C5_TwoRuns(pid)

\* C6 Successful run postcondition: when one run_full_review that returned
\* is all that has written to a freshly submitted paper, the status is one
\* of accepted, rejected, revision, each of the three tables holds exactly
\* one row for the paper, and the paper's decision records are exactly
\* peer_review, redteam, meta_review in that order.
C6_SuccessfulRun ==
  \A pid \in DOMAIN hist :
    (Idle /\ Len(hist[pid]) = 1 /\ IsRun(hist[pid][1])
          /\ hist[pid][1].error = NONE) =>
      LET run == hist[pid][1]
      IN  /\ run.current = "submitted"
          /\ papers[pid].status \in {"accepted", "rejected", "revision"}
          /\ RowsAreBy(reviews, pid, <<run.id>>)
          /\ RowsAreBy(redteam_reports, pid, <<run.id>>)
          /\ RowsAreBy(meta_reviews, pid, <<run.id>>)
          /\ RecordsOf(pid) = STAGE_RECORDS

\* C6 witness: the only call that wrote to the paper is a run that returned,
\* and the paper is accepted
C6_Witness ==
  \E pid \in DOMAIN hist :
    /\ Idle
    /\ Len(hist[pid]) = 1
    /\ IsRun(hist[pid][1])
    /\ hist[pid][1].error = NONE
    /\ papers[pid].status = "accepted"

\* C7 Partial-failure persistence: a run in which a stage adapter raised has
\* ended at once with that failure; the adapters invoked are the stages up
\* to the one that raised; the rows and decision records of the stages
\* before it are there and none of that stage or a later one; and the final
\* update was not made: the status is under_review if the run read
\* submitted and otherwise what it read, and the maturity level of a paper
\* read as submitted is still L0.
C7_PartialFailure ==
  /\ \A c \in DOMAIN active : IsRun(active[c]) => active[c].raised = NONE
  /\ (Idle /\ IsRun(last)
        /\ last.raised \in {STAGE_ADAPTERS[i] : i \in DOMAIN STAGE_ADAPTERS}) =>
       LET pid == last.paper_id
           k == Len(last.invoked)
           ran(n) == IF k > n THEN <<last.id>> ELSE <<>>
       IN  /\ last.error = "AdapterFailure"
           /\ last.returned = NONE
           /\ last.invoked = SubSeq(STAGE_ADAPTERS, 1, k)
           /\ last.raised = STAGE_ADAPTERS[k]
           /\ Len(RowsBy(reviews, last.id)) = Len(ran(1))
           /\ Len(RowsBy(redteam_reports, last.id)) = Len(ran(2))
           /\ Len(RowsBy(meta_reviews, last.id)) = 0
           /\ RecordsBy(pid, last.id) = SubSeq(STAGE_RECORDS, 1, k - 1)
           /\ papers[pid].status =
                IF last.current = "submitted" THEN "under_review"
                ELSE last.current
           /\ last.current = "submitted" => papers[pid].maturity_level = "L0"

\* C7 witness: the red team adapter raised in a run on a submitted paper
C7_Witness ==
  /\ Idle
  /\ IsRun(last)
  /\ last.raised = "redteam_paper"
  /\ last.current = "submitted"
  /\ Len(RowsBy(reviews, last.id)) = 1
  /\ papers[last.paper_id].status = "under_review"

\* the run_full_review calls in progress and the one that ended last
C8_Runs == {r \in {active[c] : c \in DOMAIN active} \cup {last} : IsRun(r)}

\* the table a stage's output row goes to
C8_OutputOf(action_type) ==
  CASE action_type = "peer_review" -> reviews
    [] action_type = "redteam" -> redteam_reports
    [] action_type = "meta_review" -> meta_reviews

\* C8, no record without its row: a decision record of a stage is in a log
\* only if the call that wrote it has that stage's row in the table
C8_HasRowBy(table, c) == \E k \in DOMAIN table : table[k].by = c
C8_HasItsRow(d) ==
  InList(d.action_type, STAGE_RECORDS) =>
    C8_HasRowBy(C8_OutputOf(d.action_type), d.by)
C8_HaveRows(log) == \A i \in DOMAIN log : C8_HasItsRow(log[i])
C8_RecordHasRow ==
  \A pid \in DOMAIN decision_logs : C8_HaveRows(LogOf(pid))

\* C8, the order within a run
C8_Written(r, written) ==
  LET has(table) == \E i \in DOMAIN table : table[i].by = r.id
  IN  /\ InList("redteam_paper", r.invoked) =>
           has(reviews) /\ InList("peer_review", written)
      /\ has(redteam_reports) => InList("peer_review", written)
      /\ InList("meta_review", r.invoked) =>
           /\ has(reviews) /\ has(redteam_reports)
           /\ InList("redteam", written)
      /\ has(meta_reviews) => InList("redteam", written)
      /\ r.pc = "done" =>
           has(meta_reviews) /\ written = STAGE_RECORDS
      /\ \E n \in 0..3 : written = SubSeq(STAGE_RECORDS, 1, n)
C8_Order(r) == C8_Written(r, RecordsBy(r.paper_id, r.id))

\* C8 Stage ordering within one run_full_review: the Review row is there
\* before the peer_review record, which is there before the Red Team adapter
\* is called; the Red-Team row before the redteam record; the Meta-Review
\* adapter is called only when the run holds both earlier outputs; the
\* Meta-Review row before the meta_review record, which is there before the
\* final update; and no stage's record is ever there without its row.
C8_StageOrdering == C8_RecordHasRow /\ \A r \in C8_Runs : C8_Order(r)

\* C8 witness: a run has committed its Meta-Review row and has not yet
\* written the meta_review record
C8_Witness ==
  \E c \in DOMAIN active :
    /\ IsRun(active[c])
    /\ active[c].pc = "meta_record"
    /\ RowsBy(meta_reviews, c) # <<>>
    /\ RecordsBy(active[c].paper_id, c) = <<"peer_review", "redteam">>

\* the stages whose row a run committed, and those whose record it wrote
C9_RowsCommitted(run) ==
  IF run.error = NONE THEN 3
  ELSE IF run.error = "AdapterFailure" THEN Len(run.invoked) - 1
  ELSE Len(run.invoked)
C9_RecordsWritten(run) ==
  IF run.error = NONE THEN 3 ELSE Len(run.invoked) - 1

\* the calls that wrote a stage's rows, when `runs` ran one after the other
C9_Writers(runs, stage) ==
  LET wrote_it == SelectSeq(runs, LAMBDA r : C9_RowsCommitted(r) >= stage)
  IN  [i \in DOMAIN wrote_it |-> wrote_it[i].id]

\* a run that failed and then a run that returned are what wrote to the paper
C9_FailedThenReturned(pid) ==
  /\ Idle
  /\ Len(hist[pid]) = 2
  /\ IsRun(hist[pid][1]) /\ hist[pid][1].error # NONE
  /\ IsRun(hist[pid][2]) /\ hist[pid][2].error = NONE

\* C9 Safe re-run after failure: when a run_full_review that failed is
\* followed by one that returned, the later run invoked all three stages,
\* the status is the one mapped from its own Meta-Review, and the rows and
\* decision records of the failed run are all there, before those of the
\* later run.
C9_SafeRerun ==
  \A pid \in DOMAIN hist :
    C9_FailedThenReturned(pid) =>
      LET failed == hist[pid][1]
          rerun == hist[pid][2]
          own == RowsBy(meta_reviews, rerun.id)
      IN  /\ rerun.invoked = STAGE_ADAPTERS
          /\ Len(own) = 1
          /\ papers[pid].status = MappedStatus(own[1].final_recommendation)
          /\ RowsAreBy(reviews, pid, C9_Writers(hist[pid], 1))
          /\ RowsAreBy(redteam_reports, pid, C9_Writers(hist[pid], 2))
          /\ RowsAreBy(meta_reviews, pid, C9_Writers(hist[pid], 3))
          /\ RecordsBy(pid, failed.id) =
               SubSeq(STAGE_RECORDS, 1, C9_RecordsWritten(failed))
          /\ RecordsOf(pid) = RecordsBy(pid, failed.id) \o STAGE_RECORDS

\* C9 witness: the first run failed at the meta-review adapter, the second
\* returned with reject
C9_Witness ==
  \E pid \in DOMAIN hist :
    /\ C9_FailedThenReturned(pid)
    /\ hist[pid][1].error = "AdapterFailure"
    /\ Len(hist[pid][1].invoked) = 3
    /\ Len(RowsOf(redteam_reports, pid)) = 2
    /\ papers[pid].status = "rejected"

\* the operations of the orchestrator that take a paper id
C10_Operations ==
  {"transition_paper", "run_full_review", "run_rail_evaluation",
   "promote_to_arena"}

\* C10, the step: a call of one of the four operations with an id that is
\* not in the papers table ends with the not-found error, with the database
\* and the decision logs as they were and no adapter invoked
C10_Step ==
  \A op \in C10_Operations :
    (EndsCall(op) /\ last'.paper_id \notin DOMAIN papers) =>
      /\ last'.error = "NotFound"
      /\ last'.returned = NONE
      /\ last'.invoked = <<>>
      /\ tables' = tables

\* C10 Unknown paper: transition_paper, run_full_review, run_rail_evaluation
\* and promote_to_arena called with a paper id that does not exist fail with
\* a not-found error at once (no such call is ever in progress), write
\* nothing and invoke no adapter.
C10_UnknownPaper ==
  /\ [](\A c \in DOMAIN active : active[c].paper_id \in DOMAIN papers)
  /\ [][C10_Step]_vars

\* C10 witness: a run_full_review for an id that is not in the table has
\* just failed, while another paper is there
C10_Witness ==
  /\ Idle
  /\ last.op = "run_full_review"
  /\ last.error = "NotFound"
  /\ last.paper_id \notin DOMAIN papers
  /\ DOMAIN papers # {}

\* C11 Promotion precondition: when a promote_to_arena call on an existing
\* paper that has no Review row has ended, it failed with the precondition
\* error, there is no arena row for the paper, and the paper's status is
\* what the call read.
C11_PromotionPrecondition ==
  (/\ Idle
   /\ last.op = "promote_to_arena"
   /\ last.current # NONE
   /\ RowsOf(reviews, last.paper_id) = <<>>) =>
    /\ last.error = "PreconditionFailed"
    /\ last.returned = NONE
    /\ ~\E i \in DOMAIN arena_papers :
          arena_papers[i].paper_id = last.paper_id
    /\ papers[last.paper_id].status = last.current

\* C11 witness: a promotion of a submitted paper without reviews was refused
C11_Witness ==
  /\ Idle
  /\ last.op = "promote_to_arena"
  /\ last.error = "PreconditionFailed"
  /\ last.current = "submitted"
  /\ RowsOf(reviews, last.paper_id) = <<>>
  /\ papers[last.paper_id].status = "submitted"

\* C12 The Arena is reachable only from accepted: whenever a paper's status
\* becomes published_arena, it was accepted immediately before.
C12_ArenaOnlyFromAccepted ==
  [][\A pid \in DOMAIN papers :
       (papers[pid].status # "published_arena"
          /\ papers'[pid].status = "published_arena") =>
         papers[pid].status = "accepted"]_vars

\* C13, one row: no paper ever has two arena rows
C13_OneRow ==
  \A i, j \in DOMAIN arena_papers :
    arena_papers[i].paper_id = arena_papers[j].paper_id => i = j

\* C13, the latest promotion: right after a promotion that returned, the
\* paper's one arena row is the one this promotion computed
C13_Latest ==
  (Idle /\ last.op = "promote_to_arena" /\ last.error = NONE) =>
    LET pid == last.paper_id
        rows == RowsOf(arena_papers, pid)
        revs == RowsOf(reviews, pid)
    IN  /\ Len(rows) = 1
        /\ rows[1].promoted_at = last.now
        /\ rows[1].review_count = Len(revs)
        /\ rows[1].maturity_level = papers[pid].maturity_level
        /\ rows[1].review_score =
             compute_composite_score(revs, papers[pid].maturity_level)
        /\ rows[1].badges =
             compute_badges(papers[pid], revs,
                            LatestRow(RowsOf(redteam_reports, pid)),
                            RowsOf(eval_results, pid))
        /\ papers[pid].status = "published_arena"
        /\ papers[pid].updated_at = last.now

\* C13, together: a step that writes a paper's arena row also leaves the
\* paper published_arena, updated at the time of the promotion
C13_Together ==
  \A pid \in DOMAIN papers :
    RowsOf(arena_papers', pid) # RowsOf(arena_papers, pid) =>
      /\ papers'[pid].status = "published_arena"
      /\ Len(RowsOf(arena_papers', pid)) = 1
      /\ papers'[pid].updated_at = RowsOf(arena_papers', pid)[1].promoted_at

\* C13 Promotion is an upsert: after any number of promotions that returned
\* there is exactly one arena row for the paper, holding what the most
\* recent promotion computed, and the status is published_arena; the row
\* and the status are written in one step.
C13_PromotionUpsert ==
  [](C13_OneRow /\ C13_Latest) /\ [][C13_Together]_vars

\* C13 witness: a paper promoted before has been promoted again
C13_Witness ==
  /\ Idle
  /\ last.op = "promote_to_arena"
  /\ last.error = NONE
  /\ last.current = "published_arena"
  /\ Len(RowsOf(arena_papers, last.paper_id)) = 1

\* the operations of the orchestrator that write status and maturity
C14_Orchestrator == {"transition_paper", "run_full_review", "promote_to_arena"}

\* the operation that takes this step: that of the call that ends in it,
\* or else that of the call in progress that moves in it
C14_Writer ==
  IF last'.id # last.id THEN last'.op
  ELSE IF \E c \in DOMAIN active' : c \notin DOMAIN active \/ active'[c] # active[c]
    THEN LET c == CHOOSE c \in DOMAIN active' :
                    c \notin DOMAIN active \/ active'[c] # active[c]
         IN  active'[c].op
  ELSE NONE

\* C14 The orchestrator is the sole writer of status and maturity: a step
\* that changes the status or the maturity_level of an existing paper is a
\* step of transition_paper, run_full_review or promote_to_arena.
C14_SoleWriter ==
  [][\A pid \in DOMAIN papers :
       (papers'[pid].status # papers[pid].status
          \/ papers'[pid].maturity_level # papers[pid].maturity_level) =>
         C14_Writer \in C14_Orchestrator]_vars

\* the seven declared lifecycle states
C15_Declared ==
  {"submitted", "under_review", "revision", "re_review", "accepted",
   "published_arena", "rejected"}

\* C15 Every paper's status is one of the seven declared lifecycle states in
\* every reachable state, and a paper that has been created and not yet
\* written to by any call has status submitted.
C15_StatusDeclared ==
  \A pid \in DOMAIN papers :
    /\ papers[pid].status \in C15_Declared
    /\ papers[pid].status \in {STATES[i] : i \in DOMAIN STATES}
    /\ (hist[pid] = <<>> /\ \A c \in DOMAIN active : active[c].paper_id # pid)
         => papers[pid].status = "submitted"

\* C15 witness: a transition to an undeclared status has just been refused
\* for a paper that is in re_review
C15_Witness ==
  /\ Idle
  /\ last.op = "transition_paper"
  /\ last.new_status = "archived"
  /\ last.error = "InvalidTransition"
  /\ papers[last.paper_id].status = "re_review"

\* the record_decision calls for a paper that returned, in call order
C16_Successful(pid) ==
  SelectSeq(hist[pid], LAMBDA h : h.op = "record_decision" /\ h.error = NONE)

\* get_decisions returns one entry for each call that returned, in call order
C16_CallOrder ==
  \A pid \in DOMAIN hist :
    Idle =>
      [i \in DOMAIN LogOf(pid) |-> LogOf(pid)[i].by]
        = [i \in DOMAIN C16_Successful(pid) |-> C16_Successful(pid)[i].id]

\* what get_decisions returned before a step is the beginning of what it
\* returns after the step
C16_Prefix ==
  \A pid \in PaperIds :
    IsPrefix(get_decisions(decision_logs, pid),
             get_decisions(decision_logs', pid))

\* C16: the audit log is append-only and ordered. After N record_decision
\* calls for a paper have returned, get_decisions returns exactly N entries,
\* in call order; and what get_decisions returns at one time is a prefix of
\* what it returns at any later time.
C16_AppendOnlyOrdered == [](C16_CallOrder) /\ [][C16_Prefix]_vars

\* the entries of the lines that are one whole record, in file order
C17_WellFormed(lines) ==
  LET whole == SelectSeq(lines, LAMBDA l : \A i \in DOMAIN l.pieces :
                                             i = 1 /\ l.pieces[i].complete)
  IN  [i \in DOMAIN whole |-> whole[i].pieces[1]]

\* C17: get_decisions never fails because of a malformed or partly written
\* line: it returns, and what it returns is the entries of all the
\* well-formed lines of the paper's file in their order, whether the
\* malformed lines are the last of the file or in its middle.
C17_ResilientRead ==
  (Idle /\ last.op = "get_decisions") =>
    /\ last.error = NONE
    /\ last.pc = "done"
    /\ last.returned = C17_WellFormed(FileOf(last.paper_id))

\* C17 witness: a read has just returned an entry that stands after a
\* malformed line of the file
C17_Witness ==
  /\ Idle
  /\ last.op = "get_decisions"
  /\ last.returned # <<>>
  /\ LET lines == FileOf(last.paper_id)
     IN  \E i, j \in DOMAIN lines :
           /\ i < j
           /\ ParseLine(lines[i]) = <<>>
           /\ ParseLine(lines[j]) # <<>>
           /\ ParseLine(lines[j])[1] = last.returned[Len(last.returned)]

\* the rows of a stage's table for a paper each have a decision record of
\* that stage, written by the call that wrote the row
C18_Recorded(table, action_type) ==
  \A i \in DOMAIN table :
    \E k \in DOMAIN LogOf(table[i].paper_id) :
      /\ LogOf(table[i].paper_id)[k].action_type = action_type
      /\ LogOf(table[i].paper_id)[k].by = table[i].by

\* C18: audit completeness. Whenever no operation is in progress, each
\* Review, Red-Team and Meta-Review row of a paper, whichever operation wrote
\* it, has a corresponding decision record in the paper's audit log.
C18_AuditCompleteness ==
  Idle =>
    /\ C18_Recorded(reviews, "peer_review")
    /\ C18_Recorded(redteam_reports, "redteam")
    /\ C18_Recorded(meta_reviews, "meta_review")

\* C19: a failed audit write is the run's failure. When record_decision
\* raises while run_full_review is writing a stage's decision record, the run
\* does not go on: it ends with that failure, the adapters invoked are the
\* stages up to the one whose record failed and no later one, that stage's
\* row is there and its record is not, and the final update was not made:
\* the status is under_review if the run read submitted and otherwise what
\* it read, and the maturity level of a paper read as submitted is still L0.
C19_AuditFailureFails ==
  /\ \A c \in DOMAIN active :
       IsRun(active[c]) => active[c].raised # "record_decision"
  /\ (Idle /\ IsRun(last) /\ last.raised = "record_decision") =>
       LET pid == last.paper_id
           k == Len(last.invoked)
           ran(n) == IF k >= n THEN 1 ELSE 0
       IN  /\ last.error = "AuditFailure"
           /\ last.pc = "failed"
           /\ last.returned = NONE
           /\ k \in DOMAIN STAGE_ADAPTERS
           /\ last.invoked = SubSeq(STAGE_ADAPTERS, 1, k)
           /\ Len(RowsBy(reviews, last.id)) = ran(1)
           /\ Len(RowsBy(redteam_reports, last.id)) = ran(2)
           /\ Len(RowsBy(meta_reviews, last.id)) = ran(3)
           /\ RecordsBy(pid, last.id) = SubSeq(STAGE_RECORDS, 1, k - 1)
           /\ papers[pid].status =
                IF last.current = "submitted" THEN "under_review"
                ELSE last.current
           /\ last.current = "submitted" => papers[pid].maturity_level = "L0"

\* C19 witness: the write of the red team decision record failed in a run
\* on a submitted paper
C19_Witness ==
  /\ Idle
  /\ IsRun(last)
  /\ last.raised = "record_decision"
  /\ last.current = "submitted"
  /\ last.invoked = <<"review_paper", "redteam_paper">>
  /\ Len(RowsBy(redteam_reports, last.id)) = 1
  /\ RecordsBy(last.paper_id, last.id) = <<"peer_review">>
  /\ papers[last.paper_id].status = "under_review"

\* the system prompt the adapter of each stage gives to call_llm
C20_StagePrompt ==
  ("peer_review" :> "REVIEWER_SYSTEM") @@
  ("redteam" :> "REDTEAM_SYSTEM") @@
  ("meta_review" :> "META_REVIEWER_SYSTEM")

\* the decision records of a paper that run_full_review calls wrote
C20_StageRecords(pid) ==
  SelectSeq(LogOf(pid),
            LAMBDA d : /\ d.action_type \in DOMAIN C20_StagePrompt
                       /\ \E r \in C8_Runs : r.id = d.by)

\* C20: a decision record holds a digest of the prompt and never the prompt:
\* no field of a record is the prompt text, and the records run_full_review
\* writes for its three stages carry the digest of the prompt each stage
\* used, so that records of stages with different prompts differ in it.
C20_PromptDigest ==
  \A pid \in DOMAIN decision_logs :
    LET recs == C20_StageRecords(pid)
    IN  /\ \A i \in DOMAIN LogOf(pid) :
             \A f \in DOMAIN LogOf(pid)[i] :
               f \notin {"by", "complete", "paper_id"} =>
                 LogOf(pid)[i][f] \notin DOMAIN PROMPT_DIGESTS \ {""}
        /\ \A i \in DOMAIN recs :
             recs[i].prompt_hash = prompt_hash(C20_StagePrompt[recs[i].action_type])
        /\ \A i, j \in DOMAIN recs :
             recs[i].action_type # recs[j].action_type =>
               recs[i].prompt_hash # recs[j].prompt_hash

\* ------------------------------------------------------------ rail evaluation
\* the Eval Result rows a call inserted
C28_Persisted(call) == RowsBy(eval_results, call.id)

\* every row of `rows` has a score of at least 5
C28_AllAtLeast5(rows) == \A i \in DOMAIN rows : rows[i].score >= 5

\* C28: the rail_compliant flag a successful run_rail_evaluation returns is
\* true if and only if every scenario the call scored and persisted has a
\* score of at least 5.
C28_RailCompliantFlag ==
  (Idle /\ last.op = "run_rail_evaluation" /\ last.error = NONE) =>
    (last.eval_result.rail_compliant = C28_AllAtLeast5(C28_Persisted(last)))

\* the scenarios of the rows, in the order of insertion
C29_Scenarios(rows) == [i \in DOMAIN rows |-> rows[i].scenario]

\* a step of a call of run_rail_evaluation
C29_RailStep ==
  \/ \E c \in DOMAIN active : active[c].op = "run_rail_evaluation"
  \/ EndsCall("run_rail_evaluation")

\* C29: a successful run_rail_evaluation persists one Eval Result row for
\* each of the four fixed scenarios, appends exactly one rail_evaluation
\* decision record, after the rows, and no step of it changes the status or
\* the maturity of a paper.
C29_RailPersists ==
  /\ [](\A c \in DOMAIN active :
          (active[c].op = "run_rail_evaluation" /\ active[c].pc # "record") =>
            RecordsBy(active[c].paper_id, c) = <<>>)
  /\ []((Idle /\ last.op = "run_rail_evaluation" /\ last.error = NONE) =>
          /\ C29_Scenarios(C28_Persisted(last)) = EvalScenarios
          /\ RecordsBy(last.paper_id, last.id) = <<"rail_evaluation">>)
  /\ [][C29_RailStep =>
          \A pid \in DOMAIN papers :
            /\ pid \in DOMAIN papers'
            /\ papers'[pid].status = papers[pid].status
            /\ papers'[pid].maturity_level = papers[pid].maturity_level]_vars

\* ------------------------------------------------------------ badges
\* the badges of the Arena row of a paper
C30_Badges(pid) == RowsOf(arena_papers, pid)[1].badges

\* the red team report of a paper that was created last, if there is one
C30_LatestLow(rows) ==
  \E i \in DOMAIN rows :
    /\ \A j \in DOMAIN rows : rows[j].created_at <= rows[i].created_at
    /\ rows[i].overall_risk = "low"

\* a promotion has just succeeded
C30_Promoted == Idle /\ last.op = "promote_to_arena" /\ last.error = NONE

\* the two rules that do not depend on the eval results
C30_MaturityAndRedteam(pid, badges) ==
  /\ InList("L4 Certified", badges) <=>
       papers[pid].maturity_level \in {"L4", "L5"}
  /\ InList("Red-Team Cleared", badges) <=>
       C30_LatestLow(RowsOf(redteam_reports, pid))

\* C30 as stated: the badges promote_to_arena writes hold "L4 Certified" iff
\* the maturity is L4 or L5, "Red-Team Cleared" iff the latest red team
\* report has overall_risk "low", and "Rail Compliant" iff every eval result
\* of the paper scores at least 5, a paper with no eval result included.
C30_BadgeRulesVacuous ==
  C30_Promoted =>
    LET pid == last.paper_id
        badges == C30_Badges(pid)
    IN  /\ C30_MaturityAndRedteam(pid, badges)
        /\ InList("Rail Compliant", badges) <=>
             C28_AllAtLeast5(RowsOf(eval_results, pid))

\* C30 amended: as above, but "Rail Compliant" iff the paper has at least
\* one eval result and every eval result of the paper scores at least 5.
C30_BadgeRules ==
  C30_Promoted =>
    LET pid == last.paper_id
        badges == C30_Badges(pid)
        evals == RowsOf(eval_results, pid)
    IN  /\ C30_MaturityAndRedteam(pid, badges)
        /\ InList("Rail Compliant", badges) <=>
             (evals # <<>> /\ C28_AllAtLeast5(evals))

\* C30 witness: a paper at L4 with no eval result, whose latest red team
\* report is low after an earlier high one, has been promoted
C30_Witness ==
  /\ C30_Promoted
  /\ RowsOf(eval_results, last.paper_id) = <<>>
  /\ papers[last.paper_id].maturity_level = "L4"
  /\ Len(RowsOf(redteam_reports, last.paper_id)) = 2
  /\ RowsOf(redteam_reports, last.paper_id)[1].overall_risk = "high"
  /\ C30_Badges(last.paper_id) =
       <<"L3 Certified", "L4 Certified", "Red-Team Cleared",
         "High Soundness", "High Novelty">>

\* ------------------------------------------------------------ versions
\* the revision operations
C26_Operations ==
  {"revise_paper", "submit_revision", "apply_selected_revisions",
   "author_respond"}

\* no paper's version is lower after the step than before it
C26_NeverDecreases ==
  \A pid \in DOMAIN papers :
    pid \in DOMAIN papers' /\ papers'[pid].version >= papers[pid].version

\* a successful apply_selected_revisions ends in the step, and the version
\* of its paper is one higher after the step than before it
C26_ApplyAddsOne ==
  (EndsCall("apply_selected_revisions") /\ last'.error = NONE) =>
    papers'[last'.paper_id].version = papers[last'.paper_id].version + 1

C21_Range(list) == {list[i] : i \in DOMAIN list}

\* the calls of run_full_pipeline there are: those under way and the last
\* one that ended
C21_Pipelines ==
  {active[c] : c \in {d \in DOMAIN active : active[d].op = "run_full_pipeline"}}
  \cup (IF last.op = "run_full_pipeline" THEN {last} ELSE {})

\* the four phases before Publish have succeeded in the run
C21_Composed(run) ==
  /\ Len(run.invoked) >= Len(PIPELINE_ADAPTERS)
  /\ SubSeq(run.invoked, 1, 4) = PIPELINE_ADAPTERS
  /\ Len(run.emitted) >= 8
  /\ SubSeq(run.emitted, 1, 8) = SubSeq(PIPELINE_EVENTS, 1, 8)
  /\ run.raised \notin C21_Range(PIPELINE_ADAPTERS)

\* the run has written nothing: no paper, no review row, no decision record
C21_NothingWritten(run) ==
  /\ run.paper_id = 0
  /\ ~run.wrote
  /\ run.child = 0
  /\ RowsBy(reviews, run.id) = <<>>
  /\ \A pid \in DOMAIN decision_logs : RecordsBy(pid, run.id) = <<>>

\* a run in which one of the four phases failed has ended there, with the
\* failure, and has written nothing
C21_FailedEarly ==
  \A run \in C21_Pipelines :
    run.raised \in C21_Range(PIPELINE_ADAPTERS) =>
      /\ run.id \notin DOMAIN active
      /\ run.pc = "failed"
      /\ run.error = "AdapterFailure"
      /\ C21_NothingWritten(run)

\* a run that has a paper has the four phases behind it
C21_PaperAfterCompose ==
  \A run \in C21_Pipelines :
    (run.paper_id # 0 \/ run.wrote) => C21_Composed(run)

\* a step that adds a paper is the INSERT of a run that has composed, and
\* the row is submitted; a step of a run before Publish writes nothing
C21_Step ==
  /\ DOMAIN papers' # DOMAIN papers =>
       \E c \in DOMAIN active :
         /\ active[c].pc = "insert"
         /\ C21_Composed(active[c])
         /\ DOMAIN papers' = DOMAIN papers \cup {active[c].paper_id}
         /\ papers'[active[c].paper_id].status = "submitted"
  /\ (\E c \in DOMAIN active : active[c].pc \in C21_Range(PIPELINE_PHASES)) =>
       UNCHANGED tables

\* C21: run_full_pipeline creates the paper (status submitted) only at
\* Publish, after idea, novelty, methodology and composition have all
\* succeeded; if one of the four fails, the failure reaches the caller and
\* the run has written no paper row, no review row and no decision record.
C21_PaperOnlyAtPublish ==
  /\ [](C21_FailedEarly /\ C21_PaperAfterCompose)
  /\ [][C21_Step]_vars

\* C21 witness: after a run that published paper 6, a second run failed in
\* composition and there is still one paper
C21_Witness ==
  /\ Idle
  /\ last.op = "run_full_pipeline"
  /\ last.raised = "compose_full_paper"
  /\ last.error = "AdapterFailure"
  /\ last.emitted = SubSeq(PIPELINE_EVENTS, 1, 7)
  /\ DOMAIN papers = {FirstPaperNum}

\* the events are the first events of the fixed order, each once
C22_IsPrefix(events) ==
  /\ Len(events) <= Len(PIPELINE_EVENTS)
  /\ events = SubSeq(PIPELINE_EVENTS, 1, Len(events))

\* the _start events of the fixed order are those at the odd places, the
\* last event (pipeline_complete) excepted
C22_EndsWithStart(events) ==
  /\ events # <<>>
  /\ Len(events) < Len(PIPELINE_EVENTS)
  /\ Len(events) % 2 = 1

\* C22: the progress events of run_full_pipeline come in one fixed order. A
\* successful run emits exactly the whole sequence once; a failed run emits a
\* strict prefix of it that ends with the _start event of the failing phase,
\* so that no _done event is emitted for a phase that did not complete.
C22_ProgressEvents ==
  \A run \in C21_Pipelines :
    /\ C22_IsPrefix(run.emitted)
    /\ run.pc = "done" => run.emitted = PIPELINE_EVENTS
    /\ run.pc = "failed" => C22_EndsWithStart(run.emitted)

\* the same without the runs whose record_decision failed
C22_ButAuditFailure ==
  \A run \in C21_Pipelines :
    /\ C22_IsPrefix(run.emitted)
    /\ run.pc = "done" => run.emitted = PIPELINE_EVENTS
    /\ (run.pc = "failed" /\ run.raised # "record_decision") =>
         C22_EndsWithStart(run.emitted)

\* ------------------------------------------------------------ paper ids
\* the runs that hold an identifier generate_paper_id gave them and have not
\* ended
C27_Creations ==
  {c \in DOMAIN active :
     active[c].op = "run_full_pipeline" /\ active[c].paper_id # 0}

\* C27: paper identifiers are globally unique: a creation (generate_paper_id
\* and then the INSERT) obtains an identifier that no other creation
\* obtained, also when two creations overlap, and none is given an
\* identifier that is in use.
C27_UniqueIds ==
  /\ \A c \in C27_Creations :
       active[c].pc = "insert" => active[c].paper_id \notin DOMAIN papers
  /\ \A c1, c2 \in C27_Creations :
       c1 # c2 => active[c1].paper_id # active[c2].paper_id

\* ------------------------------------------------------------ runs that race
\* the Meta-Review row a run inserted
C23_MetaOf(run) == RowsBy(meta_reviews, run.id)[1]

\* the Meta-Review row of the paper that was inserted last
C23_LatestMeta(pid) ==
  RowsOf(meta_reviews, pid)[Len(RowsOf(meta_reviews, pid))]

\* the status and the maturity of the paper are those the row gives
C23_DerivedFrom(pid, row) ==
  /\ papers[pid].status = NewStatusFor(row.final_recommendation)
  /\ papers[pid].maturity_level = row.maturity_level

\* C23: calls of run_full_review on one paper are not kept apart: their
\* stage writes interleave, and the status and the maturity the paper ends
\* with are those of the run that made its final update last, derived from
\* that run's own Meta-Review, whether or not its row is the latest one.
C23_LastWriterWins ==
  (Idle /\ IsRun(last) /\ last.error = NONE) =>
    C23_DerivedFrom(last.paper_id, C23_MetaOf(last))

\* C23 witness: two runs on one paper have both finished, the stage writes of
\* one lie between those of the other, and the status and the maturity come
\* from a Meta-Review that is not the row inserted last
C23_Witness ==
  /\ Idle
  /\ IsRun(last)
  /\ last.error = NONE
  /\ Len(hist[last.paper_id]) = 2
  /\ \A i \in 1 .. 2 : hist[last.paper_id][i].error = NONE
  /\ Len(RowsOf(meta_reviews, last.paper_id)) = 2
  /\ C23_LatestMeta(last.paper_id).by # last.id
  /\ reviews[1].by = last.id
  /\ C23_DerivedFrom(last.paper_id, C23_MetaOf(last))
  /\ ~C23_DerivedFrom(last.paper_id, C23_LatestMeta(last.paper_id))

\* ------------------------------------------------------------ the stream
\* the consumer of the run is still there
C24_Consumed(t) == \E s \in DOMAIN active : active[s].child = t

\* the run went as a run of run_full_pipeline goes: it emitted its steps, and
\* if it returned, it had created its paper and the review had moved it on
C24_RanAsPipeline(run) ==
  /\ run.emitted # <<>>
  /\ run.error = NONE =>
       /\ run.paper_id \in DOMAIN papers
       /\ papers[run.paper_id].status \in {"accepted", "rejected", "revision"}

\* a consumer whose wait expired has reported the failure and has stopped
C24_BoundedWait ==
  (last.op = "stream_full_pipeline" /\ last.error = "Timeout") =>
    /\ last.pc = "failed"
    /\ last.id \notin DOMAIN active
    /\ last.yielded[Len(last.yielded)] = "error"

\* a background run ends in the step, after its consumer gave up
C24_AbandonedRunEnds ==
  /\ EndsCall("run_full_pipeline")
  /\ last'.thread
  /\ ~C24_Consumed(last'.id)

\* C24: the consumer of the stream waits a bounded time for the next event;
\* when the wait expires it reports the run as failed and stops, and the
\* background run of run_full_pipeline is not cancelled: it goes on after
\* that as run_full_pipeline does, creating the paper and advancing its
\* status when its phases succeed.
C24_FireAndForget ==
  /\ [](C24_BoundedWait)
  /\ [][C24_AbandonedRunEnds => C24_RanAsPipeline(last')]_vars

\* the streams there are: those under way and the one that ended last
C25_Streams ==
  {active[s] : s \in {d \in DOMAIN active :
                        active[d].op = "stream_full_pipeline"}}
  \cup (IF last.op = "stream_full_pipeline" THEN {last} ELSE {})

\* what a stream under way has forwarded is what came first in its queue
C25_InOrder ==
  \A s \in DOMAIN active :
    active[s].op = "stream_full_pipeline" =>
      LET items == EventQueue(active[s])
          yielded == active[s].yielded
      IN  /\ Len(yielded) <= Len(items)
          /\ yielded = SubSeq(items, 1, Len(yielded))

\* a stream ends in the step with the result or the error of its run: it has
\* forwarded the steps run_full_pipeline emitted (idea_start the first), each
\* once and in their order, and then the result or the error
C25_Delivered ==
  (EndsCall("stream_full_pipeline")
     /\ last'.error \notin {"Timeout", "ValidationError"}) =>
    /\ last.id = last'.child
    /\ last.emitted # <<>>
    /\ last.emitted[1] = "idea_start"
    /\ last'.yielded =
         Append(last.emitted,
                IF last.error = NONE THEN "pipeline_complete" ELSE "error")

MaxScoreRows == 3

\* reviewer_agent.py: overall_score is an integer from 1 to 10
ScoreValues == {6, 7, 8}

\* A paper that run_full_review has reviewed up to MaxScoreRows times
ScoreInit ==
  /\ \E maturity \in BadgeMaturities :
       papers = (FirstPaperNum :>
                   [id |-> 1, status |-> "accepted",
                    maturity_level |-> maturity, version |-> 1,
                    created_at |-> 1, updated_at |-> 5])
  /\ \E scores \in SeqsUpTo(ScoreValues, MaxScoreRows) :
       reviews =
         [i \in DOMAIN scores |->
            [paper_id |-> FirstPaperNum, by |-> 0, review_layer |-> "full",
             overall_score |-> scores[i], soundness |-> 4, novelty |-> 4,
             created_at |-> 1 + i]]
  /\ redteam_reports = <<>>
  /\ meta_reviews = <<>>
  /\ eval_results = <<>>
  /\ revisions = <<>>
  /\ arena_papers = <<>>
  /\ decision_logs = <<>>
  /\ active = <<>>
  /\ ncalls = 0
  /\ last = NoCall
  /\ hist = (FirstPaperNum :> <<>>)
  /\ clock = 5

ScoreSpec == ScoreInit /\ [][BadgeNext]_vars

\* ---------------------------------------------------------------------------
\* C31: composite score
\* ---------------------------------------------------------------------------

C31_Promoted ==
  Idle /\ last.op = "promote_to_arena" /\ last.error = NONE

RECURSIVE C31_Total(_)
C31_Total(rows) ==
  IF rows = <<>> THEN 0 ELSE Head(rows).overall_score + C31_Total(Tail(rows))

\* the bonus of each level as the claim lists it, in hundredths
C31_Bonus ==
  [level \in BadgeMaturities |->
     CASE level = "L0" -> 0   [] level = "L1" -> 50  [] level = "L2" -> 100
       [] level = "L3" -> 150 [] level = "L4" -> 200 [] level = "L5" -> 250]

\* n times the difference, in hundredths, between the review score written
\* and the mean of the paper's overall scores plus the bonus of its level
C31_Excess ==
  LET pid == last.paper_id
      revs == RowsOf(reviews, pid)
      row == RowsOf(arena_papers, pid)[1]
  IN  row.review_score * Len(revs)
        - (100 * C31_Total(revs)
             + C31_Bonus[papers[pid].maturity_level] * Len(revs))

C31_SixEightL3 ==
  LET pid == last.paper_id
      revs == RowsOf(reviews, pid)
  IN  /\ Len(revs) = 2
      /\ revs[1].overall_score = 6
      /\ revs[2].overall_score = 8
      /\ papers[pid].maturity_level = "L3"

\* C31 as stated: the review score written by promote_to_arena is exactly the
\* mean of all review overall scores of the paper plus the bonus of its level
C31_ExactMean ==
  C31_Promoted => C31_Excess = 0

\* C31 (amended): the review score written by promote_to_arena is the mean of
\* all review overall scores of the paper plus the maturity bonus of its level,
\* rounded to two decimal places; for overall scores [6, 8] and L3 it is 8.5
C31_CompositeScore ==
  C31_Promoted =>
    LET pid == last.paper_id
        n == Len(RowsOf(reviews, pid))
    IN  /\ n > 0
        /\ 2 * C31_Excess <= n
        /\ -2 * C31_Excess <= n
        /\ C31_SixEightL3 => RowsOf(arena_papers, pid)[1].review_score = 850

C31_Witness ==
  /\ C31_Promoted
  /\ C31_SixEightL3
  /\ RowsOf(arena_papers, last.paper_id)[1].review_score = 850

\* ---------------------------------------------------------------------------
\* C39: the steps of the maturity bonus
\* ---------------------------------------------------------------------------

C39_Ordinal(level) ==
  CASE level = "L0" -> 0 [] level = "L1" -> 1 [] level = "L2" -> 2
    [] level = "L3" -> 3 [] level = "L4" -> 4 [] level = "L5" -> 5

\* a promotion of a paper with one review: its mean is the review's score
C39_Promoted ==
  /\ Idle /\ last.op = "promote_to_arena" /\ last.error = NONE
  /\ Len(RowsOf(reviews, last.paper_id)) = 1

\* the bonus, in hundredths, that went into the review score written
C39_BonusUsed ==
  LET pid == last.paper_id
  IN  RowsOf(arena_papers, pid)[1].review_score
        - 100 * RowsOf(reviews, pid)[1].overall_score

\* C39 as stated: the bonus used rises by 0.5 per level from 0 at L0 up to L4,
\* the step from L4 to L5 is not a rise of 0.5, and the bonus of L5 is 2.5
C39_LastStepDiffers ==
  C39_Promoted =>
    LET k == C39_Ordinal(papers[last.paper_id].maturity_level)
    IN  /\ k <= 4 => C39_BonusUsed = 50 * k
        /\ k = 5 => (C39_BonusUsed = 250 /\ C39_BonusUsed - 50 * 4 # 50)

\* C39 (amended): the bonus used rises by 0.5 per level from 0 at L0 at every
\* step, the step from L4 to L5 included, and so is 2.5 for L5
C39_EveryStepHalf ==
  C39_Promoted =>
    C39_BonusUsed = 50 * C39_Ordinal(papers[last.paper_id].maturity_level)

C39_Witness ==
  /\ C39_Promoted
  /\ papers[last.paper_id].maturity_level = "L5"
  /\ C39_BonusUsed = 250

\* ---------------------------------------------------------------------------
\* Targeting assessments
\* ---------------------------------------------------------------------------

\* targeting.py: assess_maturity, the current_level of the dict it returns
\* (absent when the response of the model leaves it out)
TargetingLevels == {"L3", "L1", MISSING}

\* app.py: targeting_assess
TargetingAssess(pid) ==
  /\ ncalls' = ncalls + 1
  /\ LET call == NewCall(ncalls + 1, "targeting_assess", pid, NONE)
     IN  IF ~Exists(pid)
           THEN /\ NotFound(call)
                /\ UNCHANGED <<papers, clock>>
           ELSE
             \/ /\ Ends(Raised([call EXCEPT !.invoked = <<"assess_maturity">>],
                               "HTTP500"))
                /\ UNCHANGED <<papers, clock>>
             \/ \E current_level \in TargetingLevels :
                  LET level == IF current_level = MISSING
                                 THEN "L0" ELSE current_level
                      now == clock + 1
                  IN  /\ papers' = [papers EXCEPT
                                      ![pid].maturity_level = level,
                                      ![pid].updated_at = now]
                      /\ clock' = now
                      /\ Ends(Returned(
                           [call EXCEPT !.invoked = <<"assess_maturity">>,
                                        !.now = now, !.wrote = TRUE],
                           level))
  /\ UNCHANGED <<reviews, redteam_reports, meta_reviews, eval_results,
                 revisions, arena_papers, decision_logs>>

MaxMaturityCalls == 3

MaturityBegin == DOMAIN active = {} /\ ncalls < MaxMaturityCalls

MaturityNext ==
  \/ SubmitPaper
  \/ \E pid \in PaperIds : MaturityBegin /\ ReviewSelect(pid)
  \/ \E pid \in PaperIds : MaturityBegin /\ TargetingAssess(pid)
  \/ \E c \in DOMAIN active : ReviewEntry(c)
  \/ \E c \in DOMAIN active : ReviewPeer(c)
  \/ \E c \in DOMAIN active : ReviewPeerRecord(c)
  \/ \E c \in DOMAIN active : ReviewRedteam(c)
  \/ \E c \in DOMAIN active : ReviewRedteamRecord(c)
  \/ \E c \in DOMAIN active : ReviewMeta(c)
  \/ \E c \in DOMAIN active : ReviewMetaRecord(c)
  \/ \E c \in DOMAIN active : ReviewFinal(c)

MaturitySpec == Init /\ [][MaturityNext]_vars

\* ---------------------------------------------------------------------------
\* C32: maturity level never decreases
\* ---------------------------------------------------------------------------

C32_Ordinal(level) ==
  CASE level = "L0" -> 0 [] level = "L1" -> 1 [] level = "L2" -> 2
    [] level = "L3" -> 3 [] level = "L4" -> 4 [] level = "L5" -> 5
    [] OTHER -> 0

\* C32: across successive run_full_review runs and targeting assessments of
\* one paper, no step moves the paper's maturity level to a lower level than
\* it had before
C32_MaturityNeverDecreases ==
  [][\A pid \in DOMAIN papers :
       C32_Ordinal(papers'[pid].maturity_level)
         >= C32_Ordinal(papers[pid].maturity_level)]_vars

\* ---------------------------------------------------------------------------
\* C36: the arena projection and the status
\* ---------------------------------------------------------------------------

C36_InArena(pid) == RowsOf(arena_papers, pid) # <<>>

\* C36: whenever no operation is in progress, a paper has an arena projection
\* row if and only if its status is published_arena
C36_ArenaAgreesWithStatus ==
  Idle =>
    \A pid \in DOMAIN papers :
      C36_InArena(pid) <=> papers[pid].status = "published_arena"

\* ---------------------------------------------------------------------------
\* Calls of transition_paper that overlap
\* ---------------------------------------------------------------------------

MaxTransCalls == 3

\* a call of transition_paper can begin when a worker is free
TransBegin ==
  /\ Cardinality(DOMAIN active) < Cardinality(Workers)
  /\ ncalls < MaxTransCalls

\* TransSpec: calls of transition_paper on different threads, each with its
\* own connection
TransNext ==
  \/ SubmitPaper
  \/ \E pid \in PaperIds, s \in StatusArgs :
       TransBegin /\ TransitionSelect(pid, s)
  \/ \E c \in DOMAIN active : TransitionUpdate(c)

TransSpec == Init /\ [][TransNext]_vars

\* ---------------------------------------------------------------------------
\* C33: the guard and the write of transition_paper as one step
\* ---------------------------------------------------------------------------

\* C33: also when two calls of transition_paper on one paper overlap, every
\* status a call persists is a declared successor of the status it replaces
C33_GuardAndWriteAtomic ==
  [][\A pid \in DOMAIN papers :
       (/\ last'.id # last.id
        /\ last'.op = "transition_paper"
        /\ last'.wrote
        /\ last'.paper_id = pid
        /\ papers'[pid].status # papers[pid].status)
         => InList(papers'[pid].status, AllowedFrom(papers[pid].status))]_vars

\* ---------------------------------------------------------------------------
\* C34: the entry step of runs that overlap
\* ---------------------------------------------------------------------------

\* the runs of run_full_review, ended or not, that made the entry update of
\* a paper
C34_Entered(pid) ==
  {c \in DOMAIN active : active[c].paper_id = pid /\ active[c].entered}
    \cup {hist[pid][i].id : i \in {j \in DOMAIN hist[pid] : hist[pid][j].entered}}

C34_AtMostOnce ==
  \A pid \in DOMAIN hist : Cardinality(C34_Entered(pid)) <= 1

\* a run makes its entry update over a status other than submitted
C34_EntryOverDerived ==
  \E c \in DOMAIN active :
    /\ active[c].op = "run_full_review"
    /\ active[c].pc = "entry"
    /\ c \in DOMAIN active' /\ active'[c].entered
    /\ papers[active[c].paper_id].status # "submitted"

\* C34: with calls of run_full_review that overlap, at most one run per paper
\* makes the entry update, and no run writes under_review over a status other
\* than submitted
C34_EntryOnce ==
  [](C34_AtMostOnce) /\ [][~C34_EntryOverDerived]_vars

\* ---------------------------------------------------------------------------
\* Runs whose audit write fails part-way
\* ---------------------------------------------------------------------------

\* the pc of a record_decision step of run_full_review and the action type
\* the step passes
RECORD_STEPS ==
  ("peer_record" :> "peer_review") @@
  ("redteam_record" :> "redteam") @@
  ("meta_record" :> "meta_review")

\* orchestrator.py: run_full_review, a record_decision whose f.write fails
\* after a part of the line is in the file; the exception ends the run
ReviewRecordTorn(c) ==
  /\ active[c].op = "run_full_review"
  /\ active[c].pc \in DOMAIN RECORD_STEPS
  /\ LET call == active[c]
     IN  /\ decision_logs' =
              torn_write(call.paper_id, RECORD_STEPS[call.pc],
                         "claude-opus", "", c)
         /\ AuditFails([call EXCEPT !.raised = "record_decision"])
  /\ UNCHANGED <<papers, reviews, redteam_reports, meta_reviews, eval_results,
                 revisions, arena_papers, ncalls, clock>>

MaxAuditCalls == 2

AuditBegin == DOMAIN active = {} /\ ncalls < MaxAuditCalls

\* AuditSpec: runs of run_full_review one after the other, with audit writes
\* that fail before or while they write
AuditNext ==
  \/ SubmitPaper
  \/ \E pid \in PaperIds : AuditBegin /\ ReviewSelect(pid)
  \/ \E c \in DOMAIN active : ReviewEntry(c)
  \/ \E c \in DOMAIN active : ReviewPeer(c)
  \/ \E c \in DOMAIN active : ReviewPeerRecord(c)
  \/ \E c \in DOMAIN active : ReviewRedteam(c)
  \/ \E c \in DOMAIN active : ReviewRedteamRecord(c)
  \/ \E c \in DOMAIN active : ReviewMeta(c)
  \/ \E c \in DOMAIN active : ReviewMetaRecord(c)
  \/ \E c \in DOMAIN active : ReviewFinal(c)
  \/ \E c \in DOMAIN active : ReviewRecordTorn(c)

AuditSpec == Init /\ [][AuditNext]_vars

\* ---------------------------------------------------------------------------
\* C37: rows and decision records of the stages
\* ---------------------------------------------------------------------------

\* the decision records of a paper with one action type
C37_Records(pid, action_type) ==
  Len(SelectSeq(RecordsOf(pid), LAMBDA a : a = action_type))

\* the runs of a paper that are in progress or were aborted by a failed
\* audit write
C37_Unfinished(pid) ==
  Cardinality({c \in DOMAIN active : active[c].paper_id = pid})
    + Len(SelectSeq(hist[pid], LAMBDA h : h.error = "AuditFailure"))

C37_Between(lower, x, upper) == lower <= x /\ x <= upper

\* C37: in every reachable state, also after runs that failed and re-runs, a paper has at most as many meta-review rows as red team rows and
\* at most as many red team rows as review rows, and for each action type the
\* number of its decision records is at most the number of rows of its table
\* and at least that number less the runs in progress or aborted by a failed
\* audit write
C37_StagePrefix ==
  \A pid \in DOMAIN papers :
    LET n_reviews == Len(RowsOf(reviews, pid))
        n_redteam == Len(RowsOf(redteam_reports, pid))
        n_meta == Len(RowsOf(meta_reviews, pid))
        slack == C37_Unfinished(pid)
    IN  /\ n_meta <= n_redteam
        /\ n_redteam <= n_reviews
        /\ C37_Between(n_reviews - slack,
                       C37_Records(pid, "peer_review"), n_reviews)
        /\ C37_Between(n_redteam - slack,
                       C37_Records(pid, "redteam"), n_redteam)
        /\ C37_Between(n_meta - slack,
                       C37_Records(pid, "meta_review"), n_meta)

\* ---------------------------------------------------------------------------
\* C38: updated_at
\* ---------------------------------------------------------------------------

\* C38: no step stores in a paper's updated_at a time earlier than the value
\* it replaces, also when another operation updates the paper while a run of
\* run_full_review waits for its stage adapters
C38_UpdatedAtNeverDecreases ==
  [][\A pid \in DOMAIN papers :
       papers'[pid].updated_at >= papers[pid].updated_at]_vars

\* ---------------------------------------------------------------------------
\* C35: the terminal event of a stream
\* ---------------------------------------------------------------------------

\* app.py: stream_full_pipeline, the events the loop of generate() yields
\* when event_queue holds `items`: every step of the callback is yielded as
\* it is, _result as pipeline_complete and _error as error, each ending the
\* stream, and error when the queue stays empty
RECURSIVE StreamYields(_)
StreamYields(items) ==
  IF items = <<>> THEN <<"error">>
  ELSE LET step == Head(items)
       IN  IF step = "_result" THEN <<"pipeline_complete">>
           ELSE IF step = "_error" THEN <<"error">>
           ELSE <<step>> \o StreamYields(Tail(items))

C35_Terminal == {"pipeline_complete", "error"}

\* the places of the terminal events among the events of a stream
C35_TerminalAt(yielded) == {i \in DOMAIN yielded : yielded[i] \in C35_Terminal}

\* what run_pipeline has put into event_queue when a run of
\* run_full_pipeline has ended: the steps the run gave to its callback, then
\* _result or _error
C35_Queued(run) ==
  Append(run.emitted, IF run.error = NONE THEN "_result" ELSE "_error")

====
